---- MODULE Spec2Model ----
(***************************************************************************)
(* A model of the vital-signs processing pipeline of tauri-vital-signs     *)
(* (src-tauri/src): the bounded Sample Queue fed by the reader threads,     *)
(* the DataProcessor worker loop with its start/stop flag, the per-state    *)
(* mutexes, and the per-sample processors.                                  *)
(*                                                                          *)
(* Floating-point values are modelled as exact extended rationals           *)
(* [n, d] (d = 0 for the infinities); the inputs are i32 values, for which  *)
(* the comparisons the code makes agree with exact arithmetic.              *)
(***************************************************************************)
EXTENDS Integers, Sequences, FiniteSets, TLC

VARIABLES
    raw_data_queue,        \* DataQueue: VecDeque<VitalSigns> behind a mutex
    processed_data_queue,  \* ProcessedDataQueue behind a mutex
    ecg_state,             \* EcgProcessingState behind a mutex
    temp_state,            \* TemperatureProcessingState behind a mutex
    lttb_state,            \* LttbProcessingState behind a mutex
    lttb_config,           \* LttbConfig of the DataProcessor
    total_processed,       \* u64 behind a mutex
    is_running,            \* AtomicBool of the DataProcessor
    worker,                \* the threads spawned by DataProcessor::start
    reader,                \* the SerialReader and TestReader threads
    caller,                \* a thread calling the query methods
    now,                   \* SystemTime::now() in ms
    pushed,                \* history: every sample pushed into the Sample Queue
    appended,              \* history: every record pushed into the Output History
    ret,                   \* the value returned by the last processor call
    calls,                 \* the number of processor calls made (function specs)
    processor_state,       \* main.rs DataProcessorState: <<>> for None, <<p>> for Some
    processors             \* every DataProcessor the commands built: its flag and loop

vars == <<raw_data_queue, processed_data_queue, ecg_state, temp_state,
          lttb_state, lttb_config, total_processed, is_running, worker, reader, caller,
          now, pushed, appended, ret, calls, processor_state, processors>>

----------------------------------------------------------------------------
(* Extended rationals: f64 values as exact fractions.  The arithmetic is  *)
(* written as functions, so that an argument is evaluated once however    *)
(* deep the expression it comes from.                                     *)

Abs(x) == IF x < 0 THEN -x ELSE x

GCD[a \in Nat, b \in Nat] == IF b = 0 THEN a ELSE GCD[b, a % b]

Sign(x) == IF x > 0 THEN 1 ELSE IF x < 0 THEN -1 ELSE 0

\* n/d in lowest terms, d >= 0; d = 0 gives +inf, -inf or NaN (0/0).
Ratio[n \in Int, d \in Int] ==
    IF d = 0 THEN [n |-> Sign(n), d |-> 0]
    ELSE LET s == IF d < 0 THEN -1 ELSE 1
             g == GCD[Abs(n), Abs(d)]
         IN  [n |-> (s * n) \div g, d |-> (s * d) \div g]

Rat(n, d) == Ratio[n, d]

XNum == [n : Int, d : Nat]
Fin(v) == [n |-> v, d |-> 1]
PosInf == [n |-> 1, d |-> 0]
NegInf == [n |-> -1, d |-> 0]
NaN == [n |-> 0, d |-> 0]
IsNaN(a) == a.n = 0 /\ a.d = 0
IsFinite(a) == a.d # 0

\* IEEE-754 comparisons: every comparison with NaN is false.
Less[a \in XNum, b \in XNum] == ~IsNaN(a) /\ ~IsNaN(b) /\ a.n * b.d < b.n * a.d
LessEq[a \in XNum, b \in XNum] == ~IsNaN(a) /\ ~IsNaN(b) /\ a.n * b.d <= b.n * a.d
XLt(a, b) == Less[a, b]
XGt(a, b) == Less[b, a]
XLe(a, b) == LessEq[a, b]

Neg[a \in XNum] == [n |-> -a.n, d |-> a.d]
XNeg(a) == Neg[a]

Sum[a \in XNum, b \in XNum] ==
    IF IsNaN(a) \/ IsNaN(b) THEN NaN
    ELSE IF a.d = 0 /\ b.d = 0 THEN (IF a.n = b.n THEN a ELSE NaN)
    ELSE IF a.d = 0 THEN a
    ELSE IF b.d = 0 THEN b
    ELSE Ratio[a.n * b.d + b.n * a.d, a.d * b.d]
XAdd(a, b) == Sum[a, b]

XSub(a, b) == Sum[a, Neg[b]]

Product[a \in XNum, b \in XNum] ==
    IF IsNaN(a) \/ IsNaN(b) THEN NaN
    ELSE Ratio[a.n * b.n, a.d * b.d]
XMul(a, b) == Product[a, b]

Quotient[a \in XNum, b \in XNum] ==
    IF IsNaN(a) \/ IsNaN(b) THEN NaN
    ELSE Ratio[a.n * b.d, a.d * b.n]
XDiv(a, b) == Quotient[a, b]

----------------------------------------------------------------------------
(* ECG feature extractor: DataProcessor::process_ecg_data. *)

EpochLen == 300
SampleRate == 250
MaxHeartRate == 100
OriginalListCap == 250
PeakDetectionThreshold == Rat(6, 10)

\* An extractor that starts with the range [0, 0].
ZeroRangeEcgState ==
    [ last_heart_rate |-> Fin(0),
      last_rr_interval |-> Fin(0),
      ecg_point_max |-> Fin(0),
      ecg_point_min |-> Fin(0),
      ecg_point_max_new |-> Fin(0),
      ecg_point_min_new |-> PosInf,
      ecg_points |-> <<>>,
      peak_interval_num |-> 0,
      counter |-> 0,
      ecg_data_original_list_len |-> 0 ]

\* EcgProcessingState as DataProcessor::new builds it.  The write-only
\* ecg_data_original_list is kept as its length.
NewEcgState ==
    [ last_heart_rate |-> Fin(0),
      last_rr_interval |-> Fin(0),
      ecg_point_max |-> NegInf,
      ecg_point_min |-> PosInf,
      ecg_point_max_new |-> Fin(0),
      ecg_point_min_new |-> PosInf,
      ecg_points |-> <<>>,
      peak_interval_num |-> 0,
      counter |-> 0,
      ecg_data_original_list_len |-> 0 ]

\* Lines 655-664: record the sample and fold it into the next epoch's range.
EcgAccumulate(st, v) ==
    [st EXCEPT
        !.ecg_data_original_list_len = @ + 1,
        !.ecg_point_max_new = IF XGt(Fin(v), @) THEN Fin(v) ELSE @,
        !.ecg_point_min_new = IF XLt(Fin(v), @) THEN Fin(v) ELSE @]

\* An epoch one sample too long.
LateEpoch(st) ==
    IF st.counter + 1 > EpochLen
    THEN [st EXCEPT !.ecg_point_max = st.ecg_point_max_new,
                    !.ecg_point_min = st.ecg_point_min_new,
                    !.ecg_point_max_new = Fin(0),
                    !.ecg_point_min_new = PosInf,
                    !.counter = 0]
    ELSE [st EXCEPT !.counter = @ + 1]

\* Lines 667-674: every EpochLen samples the accumulated range becomes current.
EcgEpoch(st) ==
    IF st.counter + 1 >= EpochLen
    THEN [st EXCEPT !.ecg_point_max = st.ecg_point_max_new,
                    !.ecg_point_min = st.ecg_point_min_new,
                    !.ecg_point_max_new = Fin(0),
                    !.ecg_point_min_new = PosInf,
                    !.counter = 0]
    ELSE [st EXCEPT !.counter = @ + 1]

\* The interval taken for seconds: the sample period left out.
IntervalAsSeconds(n) == XDiv(Fin(60), Fin(n))

\* Line 695: 60.0 / (1.0 / 250.0 * peak_interval_num).
HeartRateOf(n) == XDiv(Fin(60), XMul(XDiv(Fin(1), Fin(SampleRate)), Fin(n)))

\* The heart rate left as computed.
UnclampedHeartRate(hr) == hr

\* Lines 698-700.
ClampHeartRate(hr) == IF XGt(hr, Fin(MaxHeartRate)) THEN Fin(MaxHeartRate) ELSE hr

\* Line 688.
IsPeak(points) == points[1] < points[2] /\ points[2] > points[3]

\* Every local maximum taken for an R wave.
NoThreshold(st, points) == TRUE

\* Lines 689-692.
AboveThreshold(st, points) ==
    LET threshold_value ==
            XMul(XSub(st.ecg_point_max, st.ecg_point_min), PeakDetectionThreshold)
    IN  XGt(XSub(Fin(points[2]), st.ecg_point_min), threshold_value)

\* Lines 693-709: a qualifying peak.
EcgOnRWave(st) ==
    IF st.peak_interval_num # 0
    THEN LET heart_rate == ClampHeartRate(HeartRateOf(st.peak_interval_num))
         IN  [st EXCEPT !.last_heart_rate = heart_rate,
                        !.last_rr_interval = XDiv(Fin(60), heart_rate),
                        !.peak_interval_num = 0]
    ELSE st

\* Lines 676-717: the 3-sample window and the peak test.
EcgWindow(st, v) ==
    IF Len(st.ecg_points) < 3
    THEN [st EXCEPT !.ecg_points = Append(@, v)]
    ELSE LET s1 == [st EXCEPT !.ecg_points = Append(Tail(@), v)]
         IN  IF IsPeak(s1.ecg_points)
             THEN IF AboveThreshold(s1, s1.ecg_points)
                  THEN EcgOnRWave(s1)
                  ELSE [s1 EXCEPT !.peak_interval_num = @ + 1]
             ELSE [s1 EXCEPT !.peak_interval_num = @ + 1]

\* Lines 719-722.
EcgTrimOriginal(st) ==
    IF st.ecg_data_original_list_len >= OriginalListCap
    THEN [st EXCEPT !.ecg_data_original_list_len = 0]
    ELSE st

\* The state process_ecg_data leaves behind.
ProcessEcgData(st, v) == EcgTrimOriginal(EcgWindow(EcgEpoch(EcgAccumulate(st, v)), v))

\* Line 725: what process_ecg_data returns, given the state it leaves.
EcgReturn(st) == <<st.last_heart_rate, st.last_rr_interval>>

----------------------------------------------------------------------------
(* Temperature filter and SpO2 validator. *)

TempWindow == 70
TempTrim == 10

\* TemperatureProcessingState as DataProcessor::new builds it.
NewTempState ==
    [ temperatures |-> <<>>,
      scale_factor |-> Rat(8, 10),
      offset |-> Fin(0),
      max_temp |-> Rat(372, 10),
      room_temperature |-> Rat(232, 10) ]

\* sort_by(partial_cmp), line 592: the values in ascending order; the k-th
\* is the one with fewer than k values below it and at least k not above.
SortTemps(xs) ==
    [k \in 1..Len(xs) |->
        CHOOSE v \in {xs[i] : i \in 1..Len(xs)} :
            /\ Cardinality({i \in 1..Len(xs) : XLt(xs[i], v)}) < k
            /\ k <= Cardinality({i \in 1..Len(xs) : XLe(xs[i], v)})]

\* The sum of a sequence from 0.0, taken by halves: with exact fractions the
\* order of the additions does not change the sum.
RECURSIVE SumSeq(_)
SumSeq(xs) ==
    IF Len(xs) = 0 THEN Fin(0)
    ELSE IF Len(xs) = 1 THEN XAdd(Fin(0), xs[1])
    ELSE LET mid == Len(xs) \div 2
         IN  XAdd(SumSeq(SubSeq(xs, 1, mid)), SumSeq(SubSeq(xs, mid + 1, Len(xs))))

\* The calibrated value, whatever it is.
NoSubstitution(st, raw_temp) ==
    XAdd(XMul(XDiv(Fin(raw_temp), Fin(10)), st.scale_factor), st.offset)

\* Lines 569-579: calibration and the low-value substitution.
AdjustedTemp(st, raw_temp) ==
    LET raw_temp_value == XDiv(Fin(raw_temp), Fin(10))
        temp_value == XAdd(XMul(raw_temp_value, st.scale_factor), st.offset)
    IN  IF XLt(temp_value, XSub(st.room_temperature, Fin(10)))
        THEN st.room_temperature
        ELSE temp_value

\* Lines 582-587: the buffer after the push and the drop-oldest step.
TempPushed(st, raw_temp) ==
    LET pushed_temps == Append(st.temperatures, AdjustedTemp(st, raw_temp))
    IN  IF Len(pushed_temps) > TempWindow THEN Tail(pushed_temps) ELSE pushed_temps

\* The mean of the whole window.
PlainMean(temps) == XDiv(SumSeq(temps), Fin(Len(temps)))

\* Lines 596-597: mean of the sorted window without its TempTrim extremes.
TrimmedMean(temps) ==
    LET sorted_temps == SortTemps(temps)
        trimmed_temps == SubSeq(sorted_temps, TempTrim + 1, Len(sorted_temps) - TempTrim)
    IN  XDiv(SumSeq(trimmed_temps), Fin(Len(trimmed_temps)))

\* A filter that keeps its window when it is full.
NeverCleared(st, raw_temp) ==
    [ state |-> [st EXCEPT !.temperatures = TempPushed(st, raw_temp)],
      value |-> AdjustedTemp(st, raw_temp) ]

\* process_body_temperature: [state, value] it leaves and returns.
ProcessBodyTemperature(st, raw_temp) ==
    LET adjusted_temp == AdjustedTemp(st, raw_temp)
        temps == TempPushed(st, raw_temp)
    IN  IF Len(temps) = TempWindow /\ Len(temps) >= 2 * TempTrim
        THEN LET average_temp == TrimmedMean(temps)
             IN  [ state |-> [st EXCEPT !.temperatures = <<>>],
                   value |-> IF XGt(average_temp, st.max_temp)
                             THEN st.max_temp ELSE average_temp ]
        ELSE [ state |-> [st EXCEPT !.temperatures = temps],
               value |-> adjusted_temp ]

\* A validator that raises an invalid value to 1.
AtLeastOne(raw_spo2) == IF raw_spo2 < 1 THEN 1 ELSE raw_spo2

\* process_blood_oxygen.
ProcessBloodOxygen(raw_spo2) == IF raw_spo2 < 1 THEN 0 ELSE raw_spo2

----------------------------------------------------------------------------
(* LTTB compressor. *)

BufferSize == 1000
CompressionRatio == 10
RangeUpdateInterval == 500
RecentDataSize == 500
KeepDivisor == 4
EnableDynamicRange == TRUE

\* LttbConfig::default.
LttbConfigDefault ==
    [ buffer_size |-> BufferSize,
      compression_ratio |-> CompressionRatio,
      enable_dynamic_range |-> EnableDynamicRange,
      range_update_interval |-> RangeUpdateInterval ]

\* LttbProcessingState as DataProcessor::new builds it from LttbConfig::default.
NewLttbState ==
    [ raw_buffer |-> <<>>,
      compressed_buffer |-> <<>>,
      buffer_size |-> LttbConfigDefault.buffer_size,
      compression_ratio |-> LttbConfigDefault.compression_ratio,
      global_min |-> PosInf,
      global_max |-> NegInf,
      sample_counter |-> 0 ]

XAbs(a) == [n |-> Abs(a.n), d |-> a.d]
Min(a, b) == IF a < b THEN a ELSE b

\* Lines 491-493: the triangle area of a, the candidate and the average point.
TriangleArea(ax, ay, c, avg_x, avg_y) ==
    XAbs(XDiv(XAdd(XAdd(XMul(ax, XSub(c.y, avg_y)),
                        XMul(c.x, XSub(avg_y, ay))),
                   XMul(avg_x, XSub(ay, c.y))),
              Fin(2)))

\* A loop that replaces the index it holds whenever an area is not below
\* the largest so far: the last of the largest.
LastLargest(data, a, avg, idx, to, max_area, next_a) ==
    LET area == [j \in idx..(to - 1) |->
                    TriangleArea(data[a + 1].x, data[a + 1].y, data[j + 1],
                                 avg.x, avg.y)]
        above == {j \in idx..(to - 1) : ~XLt(area[j], max_area)}
    IN  IF above = {} THEN next_a
        ELSE CHOOSE j \in above :
                \A k \in above :
                    /\ (k > j) => XLt(area[k], area[j])
                    /\ (k < j) => ~XGt(area[k], area[j])

\* Lines 486-499: the loop replaces the index it holds whenever an area is
\* above the largest so far, which starts at max_area; so it ends with the
\* first index of [idx, to) whose area is the largest of those above
\* max_area, or with next_a when there is none (indices are the source's,
\* 0-based; data[j] is data[j + 1] here).
LargestFrom(data, a, avg, idx, to, max_area, next_a) ==
    LET area == [j \in idx..(to - 1) |->
                    TriangleArea(data[a + 1].x, data[a + 1].y, data[j + 1],
                                 avg.x, avg.y)]
        above == {j \in idx..(to - 1) : XGt(area[j], max_area)}
    IN  IF above = {} THEN next_a
        ELSE CHOOSE j \in above :
                \A k \in above :
                    /\ (k < j) => XLt(area[k], area[j])
                    /\ (k > j) => ~XGt(area[k], area[j])

\* Lines 466-477: the average point of [from, to), (0, 0) when it is empty.
BucketAverage(data, from, to) ==
    IF to - from > 0
    THEN LET pts == SubSeq(data, from + 1, to)
         IN  [ x |-> XDiv(SumSeq([k \in 1..Len(pts) |-> pts[k].x]), Fin(to - from)),
               y |-> XDiv(SumSeq([k \in 1..Len(pts) |-> pts[k].y]), Fin(to - from)) ]
    ELSE [x |-> Fin(0), y |-> Fin(0)]

\* floor(k * bucket_size), bucket_size = (len - 2) / (threshold - 2).
BucketFloor(k, len, threshold) == (k * (len - 2)) \div (threshold - 2)

\* A turn that looks for its point from the point selected last on.
SelectFromLast(data, threshold, i, a) ==
    LET len == Len(data)
        avg_range_start == BucketFloor(i + 1, len, threshold) + 1
        avg_range_end == Min(BucketFloor(i + 2, len, threshold) + 1, len)
        avg == BucketAverage(data, avg_range_start, avg_range_end)
        range_to == BucketFloor(i + 1, len, threshold) + 1
    IN  LargestFrom(data, a, avg, a, Min(range_to, len), Fin(-1), a)

\* Lines 460-499, turn i of the loop: the index it selects, a the index
\* selected last.
LttbSelect(data, threshold, i, a) ==
    LET len == Len(data)
        avg_range_start == BucketFloor(i + 1, len, threshold) + 1
        avg_range_end == Min(BucketFloor(i + 2, len, threshold) + 1, len)
        avg == BucketAverage(data, avg_range_start, avg_range_end)
        range_offs == BucketFloor(i, len, threshold) + 1
        range_to == BucketFloor(i + 1, len, threshold) + 1
    IN  LargestFrom(data, a, avg, range_offs, Min(range_to, len), Fin(-1), range_offs)

\* Lines 459-503, turns from .. to - 1 of the loop, a the index selected
\* before them: [a, sampled], the index selected last and the points pushed.
\* The turns are split in halves, the second starting where the first ends.
RECURSIVE LttbBuckets(_, _, _, _, _)
LttbBuckets(data, threshold, from, to, a) ==
    IF from >= to THEN [a |-> a, sampled |-> <<>>]
    ELSE IF to - from = 1
    THEN LET next_a == LttbSelect(data, threshold, from, a)
         IN  [a |-> next_a, sampled |-> <<data[next_a + 1]>>]
    ELSE LET mid == (from + to) \div 2
             head == LttbBuckets(data, threshold, from, mid, a)
             rest == LttbBuckets(data, threshold, mid, to, head.a)
         IN  [sampled |-> head.sampled \o rest.sampled, a |-> rest.a]

\* A downsampling that returns its input.
NotDownsampled(data, threshold) == data

\* A downsampling that tests the threshold before the length.
EndsFirst(data, threshold) ==
    IF threshold <= 2 /\ data # <<>> THEN <<data[1], data[Len(data)]>>
    ELSE IF Len(data) <= threshold THEN data
    ELSE <<data[1]>> \o LttbBuckets(data, threshold, 0, threshold - 2, 0).sampled
                     \o <<data[Len(data)]>>

\* A downsampling that repeats the first point for a threshold of 2 or less.
FirstTwice(data, threshold) ==
    IF Len(data) <= threshold THEN data
    ELSE IF threshold <= 2 THEN <<data[1], data[1]>>
    ELSE <<data[1]>> \o LttbBuckets(data, threshold, 0, threshold - 2, 0).sampled
                     \o <<data[Len(data)]>>

\* A downsampling that does not push the last point.
WithoutLast(data, threshold) ==
    IF Len(data) <= threshold THEN data
    ELSE IF threshold <= 2 THEN <<data[1], data[Len(data)]>>
    ELSE <<data[1]>> \o LttbBuckets(data, threshold, 0, threshold - 2, 0).sampled

\* lttb_downsample.
LttbDownsample(data, threshold) ==
    IF Len(data) <= threshold THEN data
    ELSE IF threshold <= 2 THEN <<data[1], data[Len(data)]>>
    ELSE <<data[1]>> \o LttbBuckets(data, threshold, 0, threshold - 2, 0).sampled
                     \o <<data[Len(data)]>>

\* Lines 523-536: the running maximum from -inf and minimum from +inf; a
\* NaN is above and below nothing.
MaxOf(xs) ==
    LET values == {v \in {xs[i] : i \in 1..Len(xs)} : ~IsNaN(v)} \cup {NegInf}
    IN  CHOOSE m \in values : \A v \in values : ~XGt(v, m)

MinOf(xs) ==
    LET values == {v \in {xs[i] : i \in 1..Len(xs)} : ~IsNaN(v)} \cup {PosInf}
    IN  CHOOSE m \in values : \A v \in values : ~XLt(v, m)

\* recalculate_global_range.
RecalculateGlobalRange(st) ==
    IF st.raw_buffer = <<>> THEN st
    ELSE LET len == Len(st.raw_buffer)
             recent_data_size == Min(len, RecentDataSize)
             recent == SubSeq(st.raw_buffer, len - recent_data_size + 1, len)
             original == [k \in 1..Len(recent) |->
                            XAdd(XMul(XDiv(XAdd(recent[k].y, Fin(1)), Fin(2)),
                                      XSub(st.global_max, st.global_min)),
                                 st.global_min)]
             new_max == MaxOf(original)
             new_min == MinOf(original)
             alpha == Rat(1, 10)
         IN  [st EXCEPT
                !.global_max = XAdd(XMul(@, XSub(Fin(1), alpha)), XMul(new_max, alpha)),
                !.global_min = XAdd(XMul(@, XSub(Fin(1), alpha)), XMul(new_min, alpha))]

\* A range the sample does not widen.
NoWiden(st, ecg_value) == st

\* Lines 368-383: the range widened by the sample, and the sample normalized.
LttbWiden(st, ecg_value) ==
    [st EXCEPT
        !.global_max = IF XGt(Fin(ecg_value), @) THEN Fin(ecg_value) ELSE @,
        !.global_min = IF XLt(Fin(ecg_value), @) THEN Fin(ecg_value) ELSE @]

\* f64 != : NaN differs from everything.
XNe(a, b) == IsNaN(a) \/ IsNaN(b) \/ a # b

Normalize(st, ecg_value) ==
    IF XNe(st.global_max, st.global_min)
    THEN XSub(XDiv(XMul(Fin(2), XSub(Fin(ecg_value), st.global_min)),
                   XSub(st.global_max, st.global_min)),
              Fin(1))
    ELSE Fin(0)

\* A compression that drains the whole raw buffer.
DrainedEmpty(st, compressed) ==
    [ state |-> [st EXCEPT !.compressed_buffer = compressed, !.raw_buffer = <<>>],
      compressed |-> compressed ]

\* Lines 407-414 and 421: the compressed snapshot stored, and the raw buffer
\* drained of all but its last buffer_size / 4 points.
LttbDrain(st, compressed) ==
    LET keep_size == st.buffer_size \div KeepDivisor
        buffer_len == Len(st.raw_buffer)
        drain_end == buffer_len - keep_size
    IN  [ state |-> [st EXCEPT !.compressed_buffer = compressed,
                               !.raw_buffer = SubSeq(@, drain_end + 1, buffer_len)],
          compressed |-> compressed ]

\* A compression that keeps the oldest points.
KeepsOldest(st) ==
    IF Len(st.raw_buffer) >= st.buffer_size
    THEN LET drained ==
                 LttbDrain(st, LttbDownsample(st.raw_buffer,
                                              st.buffer_size \div st.compression_ratio))
         IN  [drained EXCEPT
                !.state.raw_buffer = SubSeq(st.raw_buffer, 1, st.buffer_size \div KeepDivisor)]
    ELSE [ state |-> st, compressed |-> st.compressed_buffer ]

\* A snapshot that lasts for one call: dropped by the next call that does
\* not compress.
SnapshotDropped(st) ==
    IF Len(st.raw_buffer) >= st.buffer_size
    THEN LET target_points == st.buffer_size \div st.compression_ratio
         IN  LttbDrain(st, LttbDownsample(st.raw_buffer, target_points))
    ELSE [ state |-> [st EXCEPT !.compressed_buffer = <<>>],
           compressed |-> st.compressed_buffer ]

\* Lines 400-424: compression once the raw buffer reaches buffer_size;
\* [state, compressed]: the state left and the snapshot returned.
LttbCompress(st) ==
    IF Len(st.raw_buffer) >= st.buffer_size
    THEN LET target_points == st.buffer_size \div st.compression_ratio
         IN  LttbDrain(st, LttbDownsample(st.raw_buffer, target_points))
    ELSE [ state |-> st, compressed |-> st.compressed_buffer ]

\* Line 426: the pair returned, with the state left.
LttbReturned(done, ecg_normalized) ==
    [ state |-> done.state,
      normalized |-> ecg_normalized,
      compressed |-> done.compressed ]

\* process_ecg_lttb: [state, normalized, compressed] it leaves and returns.
ProcessEcgLttb(st, config, ecg_value, timestamp) ==
    LET s1 == LttbWiden(st, ecg_value)
        ecg_normalized == Normalize(s1, ecg_value)
        s2 == [s1 EXCEPT
                 !.raw_buffer = Append(@, [x |-> Fin(timestamp), y |-> ecg_normalized]),
                 !.sample_counter = @ + 1]
        s3 == IF /\ config.enable_dynamic_range
                 /\ s2.sample_counter % config.range_update_interval = 0
              THEN RecalculateGlobalRange(s2) ELSE s2
    IN  LttbReturned(LttbCompress(s3), ecg_normalized)

----------------------------------------------------------------------------
(* The pipeline: the two bounded queues, the mutexes and the threads.       *)
(*                                                                          *)
(* A critical section that takes one mutex, changes the state behind it and *)
(* drops the guard without waiting for anything is one step, enabled when   *)
(* the mutex is free.  A guard that is still held while its thread waits    *)
(* (for a second mutex, or in thread::sleep) is recorded in the thread's    *)
(* held set.                                                                *)

\* The capacity of both queues (1000 in the source), scaled down.
QueueCapacity == 2
\* How many samples the readers push in a run.
MaxSamples == 3
\* consecutive_empty_count is followed up to this value.
MaxEmptyCount == 2
BackoffAfter == 10
ShortSleepMs == 50
LongSleepMs == 200

\* One worker thread per call of DataProcessor::start: start() is called at
\* most twice in a run.
WorkerIds == {1, 2}
ReaderIds == {"serial", "test"}
Locks == {"raw", "processed", "ecg", "temp", "lttb", "count"}

\* The k-th sample pushed: its ecg value identifies it.
SampleOf(k) ==
    [ ecg |-> 100 * k,
      spo2 |-> IF k % 2 = 1 THEN 98 ELSE 0,
      temp |-> IF k % 2 = 1 THEN 370 ELSE 100 ]

\* A push that never evicts.
UnboundedPush(queue, vital_signs) == Append(queue, vital_signs)

\* serial_reader.rs 117-122 and test_reader.rs 83-87: push, dropping the oldest.
PushSample(queue, vital_signs) ==
    IF Len(queue) >= QueueCapacity
    THEN Append(Tail(queue), vital_signs)
    ELSE Append(queue, vital_signs)

\* A push that evicts the newest record.
EvictNewest(queue, processed) ==
    IF Len(queue) >= QueueCapacity
    THEN Append(SubSeq(queue, 1, Len(queue) - 1), processed)
    ELSE Append(queue, processed)

\* data_processor.rs 179-183.
PushProcessed(queue, processed) ==
    IF Len(queue) >= QueueCapacity
    THEN Append(Tail(queue), processed)
    ELSE Append(queue, processed)

\* The mutexes held by a waiting thread.
Held == UNION ({reader[r].held : r \in ReaderIds} \cup {caller.held})
Free(l) == l \notin Held

EmptyLocal ==
    [ timestamp |-> 0, body_temperature |-> Fin(0), blood_oxygen |-> 0,
      heart_rate |-> Fin(0), rr_interval |-> Fin(0), ecg_normalized |-> Fin(0),
      ecg_lttb_compressed |-> <<>> ]

\* A worker thread not yet spawned.  raw_data is <<>> for None; local holds
\* the results of process_vital_signs so far; at_stop is history: the sample
\* this worker held when stop() was last called.
IdleWorker ==
    [ pc |-> "idle", raw_data |-> <<>>, consecutive_empty_count |-> 0,
      sleep_time |-> 0, local |-> EmptyLocal, at_stop |-> <<>> ]

\* The reader threads run from the start: connect_serial starts its reader
\* before it builds the DataProcessor (main.rs 63-71).
RunningReader == [pc |-> "run", held |-> {}]

IdleCaller == [pc |-> "idle", held |-> {}]

\* DataProcessor::new with the LttbConfig it is built around.
ProcessorBuilt(config) ==
    /\ raw_data_queue = <<>>
    /\ processed_data_queue = <<>>
    /\ ecg_state = NewEcgState
    /\ temp_state = NewTempState
    /\ lttb_state = NewLttbState
    /\ lttb_config = config
    /\ total_processed = 0
    /\ is_running = FALSE
    /\ worker = [w \in WorkerIds |-> IdleWorker]
    /\ reader = [r \in ReaderIds |-> RunningReader]
    /\ caller = IdleCaller
    /\ now = 0
    /\ pushed = <<>>
    /\ appended = <<>>
    /\ ret = <<>>
    /\ calls = 0
    /\ processor_state = <<>>
    /\ processors = <<>>

Init == ProcessorBuilt(LttbConfigDefault)

\* What each group of actions leaves alone.
ProcessorVars == <<ecg_state, temp_state, lttb_state, lttb_config, total_processed>>
CommandVars == <<processor_state, processors>>
QueueVars == <<raw_data_queue, processed_data_queue, pushed, appended>>
FunctionVars == <<ret, calls>>

----------------------------------------------------------------------------
(* DataProcessor::start and DataProcessor::stop. *)

\* start(), lines 113-126: sets the flag and spawns a thread, whatever the
\* flag was.
Start ==
    /\ \E w \in WorkerIds :
        /\ worker[w].pc = "idle"
        /\ \A v \in WorkerIds : worker[v].pc = "idle" => w <= v
        /\ worker' = [worker EXCEPT ![w].pc = "check"]
    /\ is_running' = TRUE
    /\ UNCHANGED <<ProcessorVars, QueueVars, FunctionVars, CommandVars, reader, caller, now>>

\* A stop that ends each loop where it stands.
StopPreempts ==
    /\ is_running
    /\ is_running' = FALSE
    /\ worker' = [w \in WorkerIds |->
                    IF worker[w].raw_data # <<>>
                    THEN [worker[w] EXCEPT !.at_stop = <<worker[w].raw_data[1].ecg>>,
                                           !.pc = "exited", !.raw_data = <<>>,
                                           !.local = EmptyLocal]
                    ELSE worker[w]]
    /\ UNCHANGED <<ProcessorVars, QueueVars, FunctionVars, CommandVars, reader, caller, now>>

\* stop(), lines 201-203: clears the flag and returns.
Stop ==
    /\ is_running
    /\ is_running' = FALSE
    /\ worker' = [w \in WorkerIds |->
                    IF worker[w].raw_data # <<>>
                    THEN [worker[w] EXCEPT !.at_stop = <<worker[w].raw_data[1].ecg>>]
                    ELSE worker[w]]
    /\ UNCHANGED <<ProcessorVars, QueueVars, FunctionVars, CommandVars, reader, caller, now>>

----------------------------------------------------------------------------
(* The worker loop, lines 126-197. *)

WorkerLeaves == <<FunctionVars, CommandVars, reader, caller, is_running>>

\* A loop that never reads the flag.
WCheckIgnoresFlag(w) ==
    /\ worker[w].pc = "check"
    /\ worker' = [worker EXCEPT ![w].pc = "pop"]
    /\ UNCHANGED <<ProcessorVars, QueueVars, WorkerLeaves, now>>

\* Line 131: while is_running.load().
WCheck(w) ==
    /\ worker[w].pc = "check"
    /\ worker' = IF is_running
                 THEN [worker EXCEPT ![w].pc = "pop"]
                 ELSE [worker EXCEPT ![w].pc = "exited",
                                     ![w].consecutive_empty_count = 0]
    /\ UNCHANGED <<ProcessorVars, QueueVars, WorkerLeaves, now>>

\* A backoff that escalates one poll late.
SleepTimeLate(consecutive_empty_count) ==
    IF consecutive_empty_count <= BackoffAfter THEN ShortSleepMs ELSE LongSleepMs

\* Lines 187-191.
SleepTime(consecutive_empty_count) ==
    IF consecutive_empty_count < BackoffAfter THEN ShortSleepMs ELSE LongSleepMs

\* Lines 133-139, 185-191 and 307: pop_front under the Sample Queue's lock.
\* With a sample the counter is reset and process_vital_signs reads the
\* clock, which has moved on at its next reading; without one the counter
\* is incremented, as far as cap: SleepTime tells the counts from
\* BackoffAfter on apart only when cap is above it.
WPopUpTo(w, cap) ==
    /\ worker[w].pc = "pop"
    /\ Free("raw")
    /\ IF raw_data_queue = <<>>
       THEN LET c == Min(worker[w].consecutive_empty_count + 1, cap)
            IN  /\ worker' = [worker EXCEPT ![w].pc = "sleep",
                                            ![w].consecutive_empty_count = c,
                                            ![w].sleep_time = SleepTime(c)]
                /\ UNCHANGED <<raw_data_queue, now>>
       ELSE /\ worker' = [worker EXCEPT ![w].pc = "temp",
                                        ![w].raw_data = <<Head(raw_data_queue)>>,
                                        ![w].consecutive_empty_count = 0,
                                        ![w].local.timestamp = now]
            /\ raw_data_queue' = Tail(raw_data_queue)
            /\ now' = now + 1
    /\ UNCHANGED <<ProcessorVars, processed_data_queue, pushed, appended, WorkerLeaves>>

\* The pop with the counter followed to MaxEmptyCount.
WPop(w) == WPopUpTo(w, MaxEmptyCount)

\* Line 192: thread::sleep.
WSleep(w) ==
    /\ worker[w].pc = "sleep"
    /\ worker' = [worker EXCEPT ![w].pc = "check", ![w].sleep_time = 0]
    /\ UNCHANGED <<ProcessorVars, QueueVars, WorkerLeaves, now>>

\* Lines 313-319: process_body_temperature under the temperature lock, then
\* process_blood_oxygen.
WTemp(w) ==
    /\ worker[w].pc = "temp"
    /\ Free("temp")
    /\ LET r == ProcessBodyTemperature(temp_state, worker[w].raw_data[1].temp)
       IN  /\ temp_state' = r.state
           /\ worker' = [worker EXCEPT
                           ![w].pc = "ecg",
                           ![w].local.body_temperature = r.value,
                           ![w].local.blood_oxygen =
                               ProcessBloodOxygen(worker[w].raw_data[1].spo2)]
    /\ UNCHANGED <<ecg_state, lttb_state, lttb_config, total_processed, QueueVars,
                   WorkerLeaves, now>>

\* Lines 322-325: process_ecg_data under the ECG lock.
WEcg(w) ==
    /\ worker[w].pc = "ecg"
    /\ Free("ecg")
    /\ LET st == ProcessEcgData(ecg_state, worker[w].raw_data[1].ecg)
       IN  /\ ecg_state' = st
           /\ worker' = [worker EXCEPT ![w].pc = "lttb",
                                       ![w].local.heart_rate = EcgReturn(st)[1],
                                       ![w].local.rr_interval = EcgReturn(st)[2]]
    /\ UNCHANGED <<temp_state, lttb_state, lttb_config, total_processed, QueueVars,
                   WorkerLeaves, now>>

\* Lines 328-333: process_ecg_lttb under the LTTB lock.
WLttb(w) ==
    /\ worker[w].pc = "lttb"
    /\ Free("lttb")
    /\ LET r == ProcessEcgLttb(lttb_state, lttb_config, worker[w].raw_data[1].ecg,
                               worker[w].local.timestamp)
       IN  /\ lttb_state' = r.state
           /\ worker' = [worker EXCEPT ![w].pc = "count",
                                       ![w].local.ecg_normalized = r.normalized,
                                       ![w].local.ecg_lttb_compressed = r.compressed]
    /\ UNCHANGED <<ecg_state, temp_state, lttb_config, total_processed, QueueVars,
                   WorkerLeaves, now>>

\* Lines 151-157: the processed counter under its lock; then five seconds
\* have passed since the last log, or not.
WCount(w) ==
    /\ worker[w].pc = "count"
    /\ Free("count")
    /\ total_processed' = total_processed + 1
    /\ \E elapsed \in BOOLEAN :
        worker' = [worker EXCEPT ![w].pc = IF elapsed THEN "log_count" ELSE "push"]
    /\ UNCHANGED <<ecg_state, temp_state, lttb_state, lttb_config, QueueVars,
                   WorkerLeaves, now>>

\* Line 158: the counter is read under its lock, dropped with the statement.
WLogCount(w) ==
    /\ worker[w].pc = "log_count"
    /\ Free("count")
    /\ worker' = [worker EXCEPT ![w].pc = "log_lttb"]
    /\ UNCHANGED <<ProcessorVars, QueueVars, WorkerLeaves, now>>

\* Lines 159-166: the LTTB state is read under its lock, dropped with the block.
WLogLttb(w) ==
    /\ worker[w].pc = "log_lttb"
    /\ Free("lttb")
    /\ worker' = [worker EXCEPT ![w].pc = "push"]
    /\ UNCHANGED <<ProcessorVars, QueueVars, WorkerLeaves, now>>

\* Lines 335-344: the record process_vital_signs assembles.
ProcessedOf(vital_signs, local) ==
    [ ecg_raw |-> vital_signs.ecg,
      ecg_normalized |-> local.ecg_normalized,
      ecg_lttb_compressed |-> local.ecg_lttb_compressed,
      body_temperature |-> local.body_temperature,
      blood_oxygen |-> local.blood_oxygen,
      heart_rate |-> local.heart_rate,
      rr_interval |-> local.rr_interval,
      timestamp |-> local.timestamp ]

\* A loop that throws its record away when stop() was called meanwhile.
WPushUnlessStopped(w) ==
    /\ worker[w].pc = "push"
    /\ Free("processed")
    /\ LET processed == ProcessedOf(worker[w].raw_data[1], worker[w].local)
       IN  IF is_running
           THEN /\ processed_data_queue' = PushProcessed(processed_data_queue, processed)
                /\ appended' = Append(appended, processed)
           ELSE UNCHANGED <<processed_data_queue, appended>>
    /\ worker' = [worker EXCEPT ![w].pc = "check", ![w].raw_data = <<>>,
                                ![w].local = EmptyLocal]
    /\ UNCHANGED <<ProcessorVars, raw_data_queue, pushed, WorkerLeaves, now>>

\* Lines 179-184: the record is pushed onto the Output History under its
\* lock, which is dropped as the iteration ends.
WPush(w) ==
    /\ worker[w].pc = "push"
    /\ Free("processed")
    /\ LET processed == ProcessedOf(worker[w].raw_data[1], worker[w].local)
       IN  /\ processed_data_queue' = PushProcessed(processed_data_queue, processed)
           /\ appended' = Append(appended, processed)
    /\ worker' = [worker EXCEPT ![w].pc = "check", ![w].raw_data = <<>>,
                                ![w].local = EmptyLocal]
    /\ UNCHANGED <<ProcessorVars, raw_data_queue, pushed, WorkerLeaves, now>>

WorkerStep(w) ==
    \/ WCheck(w)
    \/ WPop(w)
    \/ WSleep(w)
    \/ WTemp(w)
    \/ WEcg(w)
    \/ WLttb(w)
    \/ WCount(w)
    \/ WLogCount(w)
    \/ WLogLttb(w)
    \/ WPush(w)

----------------------------------------------------------------------------
(* The producer threads: SerialReader::start and TestReader::start.  A      *)
(* reader that has seen its stop flag, an EOF or five errors in a row       *)
(* pushes no more; here the readers stop after MaxSamples pushes.           *)

ReaderLeaves == <<ProcessorVars, FunctionVars, CommandVars, worker, caller, is_running, now,
                  processed_data_queue, appended>>

\* serial_reader.rs 117-122: a line has been read and parsed; the Sample
\* Queue is locked, the sample pushed and the guard dropped as the if-let
\* block ends.
SerialPush ==
    /\ reader["serial"].pc = "run"
    /\ Len(pushed) < MaxSamples
    /\ Free("raw")
    /\ LET vital_signs == SampleOf(Len(pushed) + 1)
       IN  /\ raw_data_queue' = PushSample(raw_data_queue, vital_signs)
           /\ pushed' = Append(pushed, vital_signs)
    /\ UNCHANGED <<ReaderLeaves, reader>>

\* A TestReader whose guard outlives the loop body: it comes back to lock
\* the Sample Queue with its own guard still alive.
TestPushKeepsGuard ==
    /\ reader["test"].pc = "run"
    /\ Len(pushed) < MaxSamples
    /\ Free("raw")
    /\ LET vital_signs == SampleOf(Len(pushed) + 1)
       IN  /\ raw_data_queue' = PushSample(raw_data_queue, vital_signs)
           /\ pushed' = Append(pushed, vital_signs)
    /\ reader' = [reader EXCEPT !["test"] = [pc |-> "run", held |-> {"raw"}]]
    /\ UNCHANGED ReaderLeaves

\* test_reader.rs 80-90: a sample is generated, the Sample Queue locked and
\* the sample pushed; the thread then sleeps with the guard still alive.
TestPush ==
    /\ reader["test"].pc = "run"
    /\ Len(pushed) < MaxSamples
    /\ Free("raw")
    /\ LET vital_signs == SampleOf(Len(pushed) + 1)
       IN  /\ raw_data_queue' = PushSample(raw_data_queue, vital_signs)
           /\ pushed' = Append(pushed, vital_signs)
    /\ reader' = [reader EXCEPT !["test"] = [pc |-> "sleep", held |-> {"raw"}]]
    /\ UNCHANGED ReaderLeaves

\* test_reader.rs 90-91: the sleep ends and the guard is dropped with the
\* loop body.
TestWake ==
    /\ reader["test"].pc = "sleep"
    /\ reader' = [reader EXCEPT !["test"] = RunningReader]
    /\ UNCHANGED <<ReaderLeaves, raw_data_queue, pushed>>

----------------------------------------------------------------------------
(* The query methods, called from one thread. *)

CallerLeaves == <<ProcessorVars, QueueVars, FunctionVars, CommandVars, worker, reader, is_running, now>>

\* The oldest count items, oldest first.
TakeOldest(queue, count) == SubSeq(queue, 1, Min(count, Len(queue)))

\* Line 214: queue.iter().rev().take(count).
RevTake(queue, count) ==
    [i \in 1..Min(count, Len(queue)) |-> queue[Len(queue) - i + 1]]

\* The result of get_processed_data(count), lines 212-215.
GetProcessedDataResult(count) == RevTake(processed_data_queue, count)

\* get_processed_data: the Output History is read under its lock.
GetProcessedData ==
    /\ caller.pc = "idle"
    /\ Free("processed")
    /\ UNCHANGED vars

\* The result of get_lttb_compressed_data, lines 221-224.
GetLttbCompressedDataResult == lttb_state.compressed_buffer

\* get_lttb_compressed_data: the LTTB state is read under its lock.
GetLttbCompressedData ==
    /\ caller.pc = "idle"
    /\ Free("lttb")
    /\ UNCHANGED vars

\* get_ecg_statistics, line 231: the ECG lock.
GetEcgStatisticsLockEcg ==
    /\ caller.pc = "idle"
    /\ Free("ecg")
    /\ caller' = [pc |-> "ges_ecg", held |-> {"ecg"}]
    /\ UNCHANGED CallerLeaves

\* get_ecg_statistics taking the history's lock as well.
GetEcgStatisticsLocksHistory ==
    /\ caller.pc = "ges_ecg"
    /\ Free("lttb")
    /\ Free("processed")
    /\ caller' = [pc |-> "ges_both", held |-> caller.held \cup {"lttb", "processed"}]
    /\ UNCHANGED CallerLeaves

\* Line 232: the LTTB lock, taken with the ECG guard alive.
GetEcgStatisticsLockLttb ==
    /\ caller.pc = "ges_ecg"
    /\ Free("lttb")
    /\ caller' = [pc |-> "ges_both", held |-> caller.held \cup {"lttb"}]
    /\ UNCHANGED CallerLeaves

\* Lines 235-239.
CompressionEfficiency(st) ==
    IF Len(st.compressed_buffer) > 0
    THEN XDiv(Fin(Len(st.raw_buffer)), Fin(Len(st.compressed_buffer)))
    ELSE Fin(1)

\* The result of get_ecg_statistics, lines 241-249, read with both locks held.
GetEcgStatisticsResult ==
    [ current_heart_rate |-> ecg_state.last_heart_rate,
      average_heart_rate |-> ecg_state.last_heart_rate,
      max_heart_rate |-> ecg_state.last_heart_rate,
      min_heart_rate |-> ecg_state.last_heart_rate,
      rr_variability |-> ecg_state.last_rr_interval,
      signal_quality |-> Fin(85),
      compression_efficiency |-> CompressionEfficiency(lttb_state) ]

\* Line 250: both guards are dropped as get_ecg_statistics returns.
GetEcgStatisticsReturn ==
    /\ caller.pc = "ges_both"
    /\ caller' = IdleCaller
    /\ UNCHANGED CallerLeaves

\* get_performance_metrics, line 257: the counter is read under its lock,
\* dropped with the statement.
GetPerformanceMetricsCount ==
    /\ caller.pc = "idle"
    /\ Free("count")
    /\ caller' = [pc |-> "gpm_processed", held |-> {}]
    /\ UNCHANGED CallerLeaves

\* Line 265: the history's length is read under its lock, dropped with the
\* statement.
GetPerformanceMetricsProcessed ==
    /\ caller.pc = "gpm_processed"
    /\ Free("processed")
    /\ caller' = [pc |-> "gpm_lttb", held |-> {}]
    /\ UNCHANGED CallerLeaves

\* Lines 267-271.
CompressionRatioAchieved(st) ==
    IF Len(st.compressed_buffer) > 0
    THEN XMul(XSub(Fin(1), XDiv(Fin(Len(st.compressed_buffer)), Fin(Len(st.raw_buffer)))),
              Fin(100))
    ELSE Fin(0)

\* Lines 266-280: the LTTB state is read under its lock, dropped on return.
GetPerformanceMetricsLttb ==
    /\ caller.pc = "gpm_lttb"
    /\ Free("lttb")
    /\ caller' = IdleCaller
    /\ UNCHANGED CallerLeaves

CallerStep ==
    \/ GetProcessedData
    \/ GetLttbCompressedData
    \/ GetEcgStatisticsLockEcg
    \/ GetEcgStatisticsLockLttb
    \/ GetEcgStatisticsReturn
    \/ GetPerformanceMetricsCount
    \/ GetPerformanceMetricsProcessed
    \/ GetPerformanceMetricsLttb

----------------------------------------------------------------------------

Next ==
    \/ Start
    \/ Stop
    \/ \E w \in WorkerIds : WorkerStep(w)
    \/ SerialPush
    \/ TestPush
    \/ TestWake
    \/ CallerStep

Spec == Init /\ [][Next]_vars

----------------------------------------------------------------------------
(* process_ecg_data called again and again on one extractor state. *)

\* The ECG samples a call may be given.
EcgSamples == {-1, 0, 2}
\* How many calls a run makes: four past the first epoch.
MaxCalls == 304

\* One call of process_ecg_data, lines 648-726.
EcgCall ==
    /\ calls < MaxCalls
    /\ \E ecg_value \in EcgSamples :
        /\ ecg_state' = ProcessEcgData(ecg_state, ecg_value)
        /\ ret' = EcgReturn(ProcessEcgData(ecg_state, ecg_value))
    /\ calls' = calls + 1
    /\ UNCHANGED <<CommandVars, raw_data_queue, processed_data_queue, temp_state, lttb_state, lttb_config,
                   total_processed, is_running, worker, reader, caller, now,
                   pushed, appended>>

SpecEcg == Init /\ [][EcgCall]_vars

----------------------------------------------------------------------------
(* The pipeline under fair scheduling: a thread that can take a step takes  *)
(* one, a worker waiting for a mutex that is freed again and again gets it, *)
(* a sleeping TestReader wakes and a get_ecg_statistics call in progress    *)
(* returns.  The readers push FairSamples samples.                          *)

FairSamples == 2

FairNext ==
    \/ Start
    \/ Stop
    \/ \E w \in WorkerIds : WorkerStep(w)
    \/ Len(pushed) < FairSamples /\ SerialPush
    \/ Len(pushed) < FairSamples /\ TestPush
    \/ TestWake
    \/ CallerStep

FairSpec ==
    /\ Init
    /\ [][FairNext]_vars
    /\ \A w \in WorkerIds : SF_vars(WorkerStep(w))
    /\ WF_vars(TestWake)
    /\ WF_vars(GetEcgStatisticsLockLttb)
    /\ WF_vars(GetEcgStatisticsReturn)

----------------------------------------------------------------------------
(* A freshly built pipeline given one ramp: samples submitted and processed *)
(* one after the other by process_vital_signs.                              *)

\* Lines 335-344: the record built from what the three processors returned,
\* with the states they left.
VitalSignsProcessed(t, e, l, vital_signs, timestamp) ==
    [ temp |-> t.state, ecg |-> e, lttb |-> l.state,
      processed |->
        [ ecg_raw |-> vital_signs.ecg,
          ecg_normalized |-> l.normalized,
          ecg_lttb_compressed |-> l.compressed,
          body_temperature |-> t.value,
          blood_oxygen |-> ProcessBloodOxygen(vital_signs.spo2),
          heart_rate |-> EcgReturn(e)[1],
          rr_interval |-> EcgReturn(e)[2],
          timestamp |-> timestamp ] ]

\* process_vital_signs, lines 299-345: the three states it leaves and the
\* record it returns.
ProcessVitalSigns(ts, es, ls, config, vital_signs, timestamp) ==
    VitalSignsProcessed(ProcessBodyTemperature(ts, vital_signs.temp),
                        ProcessEcgData(es, vital_signs.ecg),
                        ProcessEcgLttb(ls, config, vital_signs.ecg, timestamp),
                        vital_signs, timestamp)

\* The ramp: RampLow some times, up to RampHigh in equal steps, down again
\* in the same steps, then RampLow.
Ramp == [low |-> 100, high |-> 650]
RampLow == Ramp.low
RampHigh == Ramp.high
RampSteps == {50, 110}
\* At most this many samples at RampLow before the ramp rises.
MaxLead == 3
\* The samples of one run.
MaxRamp == 30

\* The ECG values that may follow the values already submitted.
RampNext(sent) ==
    IF sent = <<>> THEN {RampLow}
    ELSE LET n == Len(sent)
             last == sent[n]
             prev == IF n = 1 THEN RampLow ELSE sent[n - 1]
         IN  IF \A i \in 1..n : sent[i] = RampLow
             THEN {RampLow + step : step \in RampSteps}
                  \cup (IF n < MaxLead THEN {RampLow} ELSE {})
             ELSE IF last = RampHigh THEN {last - (last - prev)}
             ELSE IF last > prev THEN {last + (last - prev)}
             ELSE IF last > RampLow THEN {last - (prev - last)}
             ELSE {RampLow}

\* One sample of the ramp submitted and processed.
RampSample ==
    /\ Len(pushed) < MaxRamp
    /\ \E ecg \in RampNext([i \in 1..Len(pushed) |-> pushed[i].ecg]) :
        LET vital_signs == [ecg |-> ecg, spo2 |-> 98, temp |-> 370]
        IN  \E r \in {ProcessVitalSigns(temp_state, ecg_state, lttb_state, lttb_config,
                                        vital_signs, now)} :
                /\ pushed' = Append(pushed, vital_signs)
                /\ temp_state' = r.temp
                /\ ecg_state' = r.ecg
                /\ lttb_state' = r.lttb
                /\ appended' = Append(appended, r.processed)
                /\ processed_data_queue' = PushProcessed(processed_data_queue, r.processed)
    /\ total_processed' = total_processed + 1
    /\ now' = now + 1
    /\ UNCHANGED <<CommandVars, raw_data_queue, lttb_config, is_running, worker, reader, caller,
                   ret, calls>>

SpecRamp == Init /\ [][RampSample]_vars

----------------------------------------------------------------------------
(* process_body_temperature called again and again on one filter state. *)

\* The raw codes a call may be given: one whose calibrated value is more
\* than 10 below room temperature, one in range, one above max_temp.
TempCodes == {100, 370, 480}
\* How many calls a run makes: past the second full window.
MaxTempCalls == 141
\* How many times the code given changes in a run.
MaxTempChanges == 1

\* The raw codes given so far.
TempsGiven == [i \in 1..Len(pushed) |-> pushed[i].temp]

Changes(codes) == Cardinality({i \in 1..(Len(codes) - 1) : codes[i] # codes[i + 1]})

\* One call of process_body_temperature, lines 562-614.
TempCall ==
    /\ calls < MaxTempCalls
    /\ \E raw_temp \in TempCodes :
        /\ Changes(Append(TempsGiven, raw_temp)) <= MaxTempChanges
        /\ temp_state' = ProcessBodyTemperature(temp_state, raw_temp).state
        /\ ret' = <<ProcessBodyTemperature(temp_state, raw_temp).value>>
        /\ pushed' = Append(pushed, [ecg |-> 0, spo2 |-> 0, temp |-> raw_temp])
    /\ calls' = calls + 1
    /\ UNCHANGED <<CommandVars, raw_data_queue, processed_data_queue, ecg_state, lttb_state, lttb_config,
                   total_processed, is_running, worker, reader, caller, now,
                   appended>>

SpecTemp == Init /\ [][TempCall]_vars

----------------------------------------------------------------------------
(* process_ecg_lttb called again and again on one LTTB state, under the    *)
(* default configuration and under one with the dynamic range disabled.    *)

\* The ECG levels of the signal.
LttbLevels == {0, 100, 300}
\* The signal keeps a level for this many samples.
Hold == [samples |-> 500]
HoldLen == Hold.samples
\* How many calls a run makes.
MaxLttbCalls == 1755

LttbConfigs ==
    {LttbConfigDefault, [LttbConfigDefault EXCEPT !.enable_dynamic_range = FALSE]}

InitLttb == \E config \in LttbConfigs : ProcessorBuilt(config)

\* One call of process_ecg_lttb, lines 360-427; the sample is stamped with
\* its number.
LttbCall ==
    /\ calls < MaxLttbCalls
    /\ \E ecg_value \in LttbLevels :
        /\ calls % HoldLen # 0 => ecg_value = ret[1]
        /\ LET r == ProcessEcgLttb(lttb_state, lttb_config, ecg_value, calls + 1)
           IN  /\ lttb_state' = r.state
               /\ ret' = <<ecg_value, r.normalized, r.compressed>>
    /\ calls' = calls + 1
    /\ UNCHANGED <<CommandVars, raw_data_queue, processed_data_queue, ecg_state, temp_state,
                   lttb_config, total_processed, is_running, worker, reader,
                   caller, now, pushed, appended>>

SpecLttb == InitLttb /\ [][LttbCall]_vars

----------------------------------------------------------------------------
(* lttb_downsample applied to a raw buffer, for every threshold. *)

\* The longest raw buffer and the largest threshold.
MaxPoints == 7
MaxThreshold == 5
\* How many times a buffer is downsampled.
MaxDownsampleCalls == 2
\* The normalized values of the points.
PointYs == {-1, 0, 1}

\* Raw buffers: points stamped 1, 2, ... with normalized values.
PointSeqs ==
    UNION {{[i \in 1..n |-> [x |-> Fin(i), y |-> Fin(ys[i])]] : ys \in [1..n -> PointYs]}
           : n \in 0..MaxPoints}

InitDownsample ==
    /\ raw_data_queue = <<>>
    /\ processed_data_queue = <<>>
    /\ ecg_state = NewEcgState
    /\ temp_state = NewTempState
    /\ \E data \in PointSeqs : lttb_state = [NewLttbState EXCEPT !.raw_buffer = data]
    /\ lttb_config = LttbConfigDefault
    /\ total_processed = 0
    /\ is_running = FALSE
    /\ worker = [w \in WorkerIds |-> IdleWorker]
    /\ reader = [r \in ReaderIds |-> RunningReader]
    /\ caller = IdleCaller
    /\ now = 0
    /\ pushed = <<>>
    /\ appended = <<>>
    /\ ret = <<>>
    /\ calls = 0
    /\ processor_state = <<>>
    /\ processors = <<>>

\* One call of lttb_downsample, lines 440-509, on the raw buffer.
DownsampleCall ==
    /\ calls < MaxDownsampleCalls
    /\ \E threshold \in 0..MaxThreshold :
        ret' = <<threshold, LttbDownsample(lttb_state.raw_buffer, threshold)>>
    /\ calls' = calls + 1
    /\ UNCHANGED <<CommandVars, raw_data_queue, processed_data_queue, ecg_state, temp_state,
                   lttb_state, lttb_config, total_processed, is_running, worker,
                   reader, caller, now, pushed, appended>>

SpecDownsample == InitDownsample /\ [][DownsampleCall]_vars

----------------------------------------------------------------------------
(* One worker loop left idle: start() is called once, the SerialReader      *)
(* pushes now and then, and the counter of empty polls is followed past     *)
(* BackoffAfter.                                                            *)

\* How far the counter of consecutive empty polls is followed.
MaxIdlePolls == 12

\* start() called on a processor that has no loop yet.
StartOnce ==
    /\ worker[1].pc = "idle"
    /\ Start

\* The loop, lines 126-197, its counter followed to MaxIdlePolls.
IdleWorkerStep(w) ==
    \/ WCheck(w)
    \/ WPopUpTo(w, MaxIdlePolls)
    \/ WSleep(w)
    \/ WTemp(w)
    \/ WEcg(w)
    \/ WLttb(w)
    \/ WCount(w)
    \/ WLogCount(w)
    \/ WLogLttb(w)
    \/ WPush(w)

IdleNext ==
    \/ StartOnce
    \/ Stop
    \/ IdleWorkerStep(1)
    \/ SerialPush

SpecIdle == Init /\ [][IdleNext]_vars

----------------------------------------------------------------------------
(* The readers feeding one worker loop under fair scheduling, with enough   *)
(* samples to overflow the Sample Queue and no query in progress: start()   *)
(* is called once, the loop takes a step when it can and gets a mutex that  *)
(* is freed again and again, and a sleeping TestReader wakes.               *)

FeedNext ==
    \/ StartOnce
    \/ Stop
    \/ WorkerStep(1)
    \/ SerialPush
    \/ TestPush
    \/ TestWake

FairFeedSpec ==
    /\ Init
    /\ [][FeedNext]_vars
    /\ SF_vars(WorkerStep(1))
    /\ WF_vars(TestWake)

----------------------------------------------------------------------------
(* The commands of main.rs on the application's SerialManager and           *)
(* DataProcessorState.  Every DataProcessor is built around the             *)
(* SerialManager's one Sample Queue, has its own running flag and is        *)
(* started once, as it is built; what its loop does with a sample it has    *)
(* popped stays inside that processor and is not followed here.             *)

\* How many DataProcessors the commands build in a run.
MaxProcessors == 3

ProcessorIds == 1..Len(processors)

StoppedReader == [pc |-> "stopped", held |-> {}]

\* The application as main() sets it up: a SerialManager with no reader, and
\* no DataProcessor.
InitCommands ==
    /\ raw_data_queue = <<>>
    /\ processed_data_queue = <<>>
    /\ ecg_state = NewEcgState
    /\ temp_state = NewTempState
    /\ lttb_state = NewLttbState
    /\ lttb_config = LttbConfigDefault
    /\ total_processed = 0
    /\ is_running = FALSE
    /\ worker = [w \in WorkerIds |-> IdleWorker]
    /\ reader = [r \in ReaderIds |-> StoppedReader]
    /\ caller = IdleCaller
    /\ now = 0
    /\ pushed = <<>>
    /\ appended = <<>>
    /\ ret = <<>>
    /\ calls = 0
    /\ processor_state = <<>>
    /\ processors = <<>>

CommandLeaves == <<ProcessorVars, FunctionVars, worker, caller, is_running, now,
                   processed_data_queue, appended>>

\* main.rs 70-74 and 139-143: DataProcessor::new(data_queue), start(), and
\* the handle stored in place of the one that was there.
BuildAndStart ==
    /\ processors' = Append(processors, [is_running |-> TRUE, pc |-> "check"])
    /\ processor_state' = <<Len(processors) + 1>>

\* main.rs 85-90 and 152-156: stop() on the processor of the handle, if
\* there is one, and the handle cleared.
StopAndClear ==
    /\ processors' = IF processor_state # <<>>
                     THEN [processors EXCEPT ![processor_state[1]].is_running = FALSE]
                     ELSE processors
    /\ processor_state' = <<>>

\* connect_serial, main.rs 51-78: SerialManager::connect stops the reader
\* there is and starts a new one, which may fail; then a DataProcessor is
\* built and started.
ConnectSerial ==
    /\ Len(processors) < MaxProcessors
    /\ \E connected \in BOOLEAN :
        IF connected
        THEN /\ reader' = [reader EXCEPT !["serial"] = RunningReader]
             /\ BuildAndStart
        ELSE /\ reader' = [reader EXCEPT !["serial"] = StoppedReader]
             /\ UNCHANGED CommandVars
    /\ UNCHANGED <<CommandLeaves, raw_data_queue, pushed>>

\* disconnect_serial, main.rs 81-96.
DisconnectSerial ==
    /\ StopAndClear
    /\ reader' = [reader EXCEPT !["serial"] = StoppedReader]
    /\ UNCHANGED <<CommandLeaves, raw_data_queue, pushed>>

\* start_data_processing, main.rs 131-146.
StartDataProcessing ==
    /\ Len(processors) < MaxProcessors
    /\ BuildAndStart
    /\ UNCHANGED <<CommandLeaves, reader, raw_data_queue, pushed>>

\* stop_data_processing, main.rs 150-156.
StopDataProcessing ==
    /\ StopAndClear
    /\ UNCHANGED <<CommandLeaves, reader, raw_data_queue, pushed>>

\* data_processor.rs 131: the loop of processor p reads its flag.
LoopCheck(p) ==
    /\ processors[p].pc = "check"
    /\ processors' = [processors EXCEPT
                        ![p].pc = IF processors[p].is_running THEN "pop" ELSE "exited"]
    /\ UNCHANGED <<CommandLeaves, processor_state, reader, raw_data_queue, pushed>>

\* data_processor.rs 133-193: the loop of processor p pops from the Sample
\* Queue, processes what it got or sleeps, and comes back to its test.
LoopPop(p) ==
    /\ processors[p].pc = "pop"
    /\ Free("raw")
    /\ raw_data_queue' = IF raw_data_queue = <<>> THEN <<>> ELSE Tail(raw_data_queue)
    /\ processors' = [processors EXCEPT ![p].pc = "check"]
    /\ UNCHANGED <<CommandLeaves, processor_state, reader, pushed>>

CommandNext ==
    \/ ConnectSerial
    \/ DisconnectSerial
    \/ StartDataProcessing
    \/ StopDataProcessing
    \/ \E p \in ProcessorIds : LoopCheck(p) \/ LoopPop(p)
    \/ SerialPush /\ UNCHANGED CommandVars

SpecCommands == InitCommands /\ [][CommandNext]_vars

----------------------------------------------------------------------------
(* The smoothing of recalculate_global_range in binary64.                   *)
(*                                                                          *)
(* global * (1.0 - alpha) + new * alpha rounds three times, and alpha = 0.1 *)
(* is not a binary fraction, so lines 541-542 are computed here digit for   *)
(* digit: a natural number is the sequence of its digits in base 2^15, the  *)
(* lowest first and the highest not 0; a binary64 value that is not         *)
(* negative is [m, e], standing for m * 2^e. Exponents stay far inside the  *)
(* range of binary64, so every result is a normal number.                   *)

Binary64 == [digits |-> 53, limb_bits |-> 15]

LimbAt(a, i) == IF i \in 1..Len(a) THEN a[i] ELSE 0

BigTrim(a) ==
    LET used == {i \in 1..Len(a) : a[i] # 0}
    IN  IF used = {} THEN <<>>
        ELSE SubSeq(a, 1, CHOOSE i \in used : \A j \in used : j <= i)

\* The digits of a sum of columns, each column carried into the next.
RECURSIVE BigCarry(_, _)
BigCarry(wide, carry) ==
    LET limb == 2^Binary64.limb_bits
    IN  IF wide = <<>>
        THEN IF carry = 0 THEN <<>>
             ELSE <<carry % limb>> \o BigCarry(<<>>, carry \div limb)
        ELSE LET t == Head(wide) + carry
                 digit == IF t < 0 THEN t + limb ELSE t % limb
                 next == IF t < 0 THEN -1 ELSE t \div limb
             IN  <<digit>> \o BigCarry(Tail(wide), next)

\* a + sign * b for sign 1 or -1, and a >= b when it is -1.
BigAdd(a, b, sign) ==
    BigTrim(BigCarry([i \in 1..(IF Len(a) > Len(b) THEN Len(a) ELSE Len(b)) |->
                        LimbAt(a, i) + sign * LimbAt(b, i)], 0))

\* a * k for one digit k.
BigTimes(a, k) == BigTrim(BigCarry([i \in 1..Len(a) |-> a[i] * k], 0))

RECURSIVE BigMul(_, _)
BigMul(a, b) ==
    IF b = <<>> THEN <<>>
    ELSE BigAdd(BigTimes(a, Head(b)), <<0>> \o BigMul(a, Tail(b)), 1)

\* a * 2^s.
BigShl(a, s) ==
    BigTrim([i \in 1..(s \div Binary64.limb_bits) |-> 0]
            \o BigTimes(a, 2^(s % Binary64.limb_bits)))

\* floor(a / 2^s).
BigShr(a, s) ==
    LET b == SubSeq(a, s \div Binary64.limb_bits + 1, Len(a))
        r == s % Binary64.limb_bits
    IN  BigTrim([i \in 1..Len(b) |->
                    (b[i] \div 2^r) + (LimbAt(b, i + 1) % 2^r) * 2^(Binary64.limb_bits - r)])

\* n * 2^e rounded to the nearest value of 53 bits, a tie to the even one;
\* s is how many bits n has above 53.
RoundToF64(n, e) ==
    LET bits == IF n = <<>> THEN 0
                ELSE Binary64.limb_bits * (Len(n) - 1)
                     + CHOOSE k \in 1..Binary64.limb_bits :
                          2^(k - 1) <= n[Len(n)] /\ n[Len(n)] < 2^k
        s == bits - Binary64.digits
    IN  IF s <= 0 THEN [m |-> n, e |-> e]
        ELSE LET q == BigShr(n, s)
                 half == LimbAt(BigShr(n, s - 1), 1) % 2 = 1
                 sticky == BigShl(BigShr(n, s - 1), s - 1) # n
                 odd == LimbAt(q, 1) % 2 = 1
             IN  [ m |-> IF half /\ (sticky \/ odd) THEN BigAdd(q, <<1>>, 1) ELSE q,
                   e |-> e + s ]

F64Mul(x, y) == RoundToF64(BigMul(x.m, y.m), x.e + y.e)

\* x + sign * y for sign 1 or -1, and x >= y when it is -1.
F64Add(x, y, sign) ==
    LET e == Min(x.e, y.e)
    IN  RoundToF64(BigAdd(BigShl(x.m, x.e - e), BigShl(y.m, y.e - e), sign), e)

F64Le(x, y) ==
    LET e == Min(x.e, y.e)
        a == BigShl(x.m, x.e - e)
        b == BigShl(y.m, y.e - e)
        differ == {i \in 1..Len(a) : a[i] # LimbAt(b, i)}
    IN  IF Len(a) # Len(b) THEN Len(a) < Len(b)
        ELSE \A i \in differ : (\A j \in differ : j <= i) => a[i] < b[i]

\* The binary64 value of n/d, for d a power of two up to 2^15 and n >= 0
\* below 2^30: these convert exactly.
F64Of(r) ==
    [ m |-> BigTrim(BigCarry(<<r.n>>, 0)),
      e |-> -(CHOOSE k \in 0..Binary64.limb_bits : 2^k = r.d) ]

\* Line 540: the literal 0.1 is 0x1.999999999999ap-4, that is
\* 7205759403792794 * 2^-56.
Alpha == [m |-> <<6554, 13107, 26214, 204>>, e |-> -56]

\* Lines 541-542: global * (1.0 - alpha) + new * alpha.
Smoothed(global, new) ==
    F64Add(F64Mul(global, F64Add(F64Of(Fin(1)), Alpha, -1)), F64Mul(new, Alpha), 1)

\* recalculate_global_range on a state whose range and stored values are
\* multiples of 1/2 that are not negative: lines 530-531 are exact on them,
\* and the smoothing rounds.
RecalculateRounded(st) ==
    IF st.raw_buffer = <<>> THEN st
    ELSE LET len == Len(st.raw_buffer)
             recent_data_size == Min(len, RecentDataSize)
             recent == SubSeq(st.raw_buffer, len - recent_data_size + 1, len)
             original == [k \in 1..Len(recent) |->
                            XAdd(XMul(XDiv(XAdd(recent[k].y, Fin(1)), Fin(2)),
                                      XSub(st.global_max, st.global_min)),
                                 st.global_min)]
             new_max == MaxOf(original)
             new_min == MinOf(original)
         IN  [st EXCEPT
                !.global_max = Smoothed(F64Of(@), F64Of(new_max)),
                !.global_min = Smoothed(F64Of(@), F64Of(new_min))]

\* process_ecg_lttb with the recalculation of line 397 rounded; up to the first
\* recalculation every value it computes on a signal of two levels is exact.
ProcessEcgLttbRounded(st, config, ecg_value, timestamp) ==
    LET s1 == LttbWiden(st, ecg_value)
        ecg_normalized == Normalize(s1, ecg_value)
        s2 == [s1 EXCEPT
                 !.raw_buffer = Append(@, [x |-> Fin(timestamp), y |-> ecg_normalized]),
                 !.sample_counter = @ + 1]
        s3 == IF /\ config.enable_dynamic_range
                 /\ s2.sample_counter % config.range_update_interval = 0
              THEN RecalculateRounded(s2) ELSE s2
    IN  LttbReturned(LttbCompress(s3), ecg_normalized)

----------------------------------------------------------------------------
(* process_ecg_lttb called on a fresh LTTB state up to its first range     *)
(* recalculation, on a signal of two levels.                                *)

RangeLevels == {13, 100}
\* The signal keeps a level for this many samples.
RangeHold == [samples |-> 250]

RangeCall ==
    /\ calls < lttb_config.range_update_interval
    /\ \E ecg_value \in RangeLevels :
        /\ calls % RangeHold.samples # 0 => ecg_value = ret[1]
        /\ LET r == ProcessEcgLttbRounded(lttb_state, lttb_config, ecg_value, calls + 1)
           IN  /\ lttb_state' = r.state
               /\ ret' = <<ecg_value, r.normalized, r.compressed>>
    /\ calls' = calls + 1
    /\ UNCHANGED <<CommandVars, raw_data_queue, processed_data_queue, ecg_state, temp_state,
                   lttb_config, total_processed, is_running, worker, reader,
                   caller, now, pushed, appended>>

SpecRange == ProcessorBuilt(LttbConfigDefault) /\ [][RangeCall]_vars

----------------------------------------------------------------------------
(* The properties. *)

\* C1: in every reachable state the Sample Queue and the Output History each
\* hold at most QueueCapacity items.
BoundedQueues ==
    /\ Len(raw_data_queue) <= QueueCapacity
    /\ Len(processed_data_queue) <= QueueCapacity

\* The Sample Queue is full and a push has already evicted from it.
QueueFullAfterEviction ==
    /\ Len(raw_data_queue) = QueueCapacity
    /\ Len(pushed) > QueueCapacity

Front(seq) == SubSeq(seq, 1, Len(seq) - 1)
Last(seq) == seq[Len(seq)]
LastN(seq, n) == SubSeq(seq, Len(seq) - Min(n, Len(seq)) + 1, Len(seq))

\* The queue after a push of item: item at the back; before it the old
\* queue, less its oldest item when it was full.
PushedOnto(old, new, item) ==
    /\ new # <<>>
    /\ Last(new) = item
    /\ Front(new) = IF Len(old) = QueueCapacity THEN Tail(old) ELSE old

\* C2: a push onto a full queue or history removes exactly the oldest item
\* and appends the new one at the back, the others keeping their order; a
\* push onto one that is not full removes nothing; so the history is always
\* the last QueueCapacity records appended, oldest first.
EvictsOldest ==
    [][ /\ pushed' # pushed =>
            PushedOnto(raw_data_queue, raw_data_queue', Last(pushed'))
        /\ appended' # appended =>
            /\ PushedOnto(processed_data_queue, processed_data_queue', Last(appended'))
            /\ processed_data_queue' = LastN(appended', QueueCapacity) ]_vars

\* The history is full and has lost its oldest record to a push.
HistoryEvicted ==
    /\ Len(appended) > QueueCapacity
    /\ Len(processed_data_queue) = QueueCapacity
    /\ processed_data_queue[1] = appended[Len(appended) - QueueCapacity + 1]

RECURSIVE IsSubsequence(_, _)
IsSubsequence(s, t) ==
    IF s = <<>> THEN TRUE
    ELSE IF t = <<>> THEN FALSE
    ELSE IF Head(s) = Head(t) THEN IsSubsequence(Tail(s), Tail(t))
    ELSE IsSubsequence(s, Tail(t))

\* C3: the ecg_raw values of the records ever appended are an
\* order-preserving, duplicate-free subsequence of the samples pushed.
FifoOrder ==
    IsSubsequence([i \in 1..Len(appended) |-> appended[i].ecg_raw],
                  [i \in 1..Len(pushed) |-> pushed[i].ecg])

RunningLoops == {w \in WorkerIds : worker[w].pc \notin {"idle", "exited"}}

\* C4: at any time at most one worker loop is running, for every sequence
\* of start() and stop() calls.
OneWorkerLoop == Cardinality(RunningLoops) <= 1

InIteration == {"temp", "ecg", "lttb", "count", "log_count", "log_lttb", "push"}

WasAppended(ecg) == \E i \in 1..Len(appended) : appended[i].ecg_raw = ecg

\* C5: a sample a worker held when stop() was called is still being
\* processed by that worker or has its record in the Output History: the
\* loop does not exit without appending it.
CooperativeStop ==
    \A w \in WorkerIds :
        worker[w].at_stop # <<>> =>
            \/ WasAppended(worker[w].at_stop[1])
            \/ /\ worker[w].pc \in InIteration
               /\ worker[w].raw_data # <<>>
               /\ worker[w].raw_data[1].ecg = worker[w].at_stop[1]

\* A loop has exited that held a sample when stop() was called.
ExitedAfterInFlightStop ==
    \E w \in WorkerIds :
        /\ worker[w].pc = "exited"
        /\ worker[w].at_stop # <<>>
        /\ WasAppended(worker[w].at_stop[1])

\* C6: once stop() has been called, and unless start() is called again,
\* every worker loop eventually terminates.
StopLeadsToExit ==
    (~is_running) ~> (is_running \/ RunningLoops = {})

\* A loop has exited with samples still queued and more to be pushed.
ExitedWithSamplesQueued ==
    /\ ~is_running
    /\ raw_data_queue # <<>>
    /\ Len(pushed) < FairSamples
    /\ \E w \in WorkerIds : worker[w].pc = "exited"

\* C7: no thread ever holds more than one of the locks.
OneLockAtATime ==
    /\ \A r \in ReaderIds : Cardinality(reader[r].held) <= 1
    /\ Cardinality(caller.held) <= 1

\* C7, as the code has it: only get_ecg_statistics holds two locks, the ECG
\* state's and then the LTTB state's; no other operation holds more than one.
OnlyEcgStatisticsHoldsTwo ==
    /\ \A r \in ReaderIds : Cardinality(reader[r].held) <= 1
    /\ Cardinality(caller.held) > 1 =>
        /\ caller.pc = "ges_both"
        /\ caller.held = {"ecg", "lttb"}

\* get_ecg_statistics holds both of its locks while a worker is in its loop.
BothLocksHeld ==
    /\ caller.pc = "ges_both"
    /\ caller.held = {"ecg", "lttb"}
    /\ RunningLoops # {}

\* C8: the heart rate process_ecg_data stores and returns is never negative
\* and never above 100.
HeartRateInRange ==
    /\ XLe(Fin(0), ecg_state.last_heart_rate)
    /\ XLe(ecg_state.last_heart_rate, Fin(100))
    /\ ret # <<>> => XLe(Fin(0), ret[1]) /\ XLe(ret[1], Fin(100))

\* A call has returned a heart rate that was cut down to 100.
HeartRateClamped ==
    /\ ret # <<>>
    /\ ret[1] = Fin(100)
    /\ ecg_state.peak_interval_num = 0

StoredEstimate(st) == <<st.last_heart_rate, st.last_rr_interval>>

\* The call just made found a qualifying peak: the window was full, its
\* middle sample is a local maximum above the threshold, and the interval
\* counter was not zero.
QualifyingPeak ==
    LET p == ecg_state'.ecg_points
        max == ecg_state'.ecg_point_max
        min == ecg_state'.ecg_point_min
    IN  /\ Len(ecg_state.ecg_points) = 3
        /\ p[1] < p[2]
        /\ p[2] > p[3]
        /\ XGt(XSub(Fin(p[2]), min), XMul(XSub(max, min), Rat(6, 10)))
        /\ ecg_state.peak_interval_num # 0

\* C9: every call returns the stored heart rate and RR interval, and a call
\* that finds no qualifying peak leaves the two stored values as they were.
HoldsEstimate ==
    [][ /\ ret' = StoredEstimate(ecg_state')
        /\ ~QualifyingPeak => StoredEstimate(ecg_state') = StoredEstimate(ecg_state) ]_vars

\* An estimate is being held: a beat has been found and calls without a
\* peak have followed it.
EstimateHeld ==
    /\ ecg_state.last_heart_rate # Fin(0)
    /\ ecg_state.peak_interval_num > 0
    /\ ret = StoredEstimate(ecg_state)

\* C10: the epoch counter is 0 after exactly every 300th call and within
\* 0..299 after every call; the 300th call makes the accumulated range,
\* its own sample included, the current one and resets the accumulators to
\* (0, +infinity); every other call leaves the current range alone.
EpochCommit ==
    [][ LET v == Fin(Last(ecg_state'.ecg_points))
            next_max == IF XGt(v, ecg_state.ecg_point_max_new)
                        THEN v ELSE ecg_state.ecg_point_max_new
            next_min == IF XLt(v, ecg_state.ecg_point_min_new)
                        THEN v ELSE ecg_state.ecg_point_min_new
        IN  /\ ecg_state'.counter \in 0..299
            /\ ecg_state'.counter = 0 <=> calls' % 300 = 0
            /\ IF calls' % 300 = 0
               THEN /\ ecg_state'.ecg_point_max = next_max
                    /\ ecg_state'.ecg_point_min = next_min
                    /\ ecg_state'.ecg_point_max_new = Fin(0)
                    /\ ecg_state'.ecg_point_min_new = PosInf
               ELSE /\ ecg_state'.ecg_point_max = ecg_state.ecg_point_max
                    /\ ecg_state'.ecg_point_min = ecg_state.ecg_point_min ]_vars

\* The 300th call has made the accumulated range current.
EpochCommitted ==
    /\ calls = 300
    /\ ecg_state.counter = 0
    /\ ecg_state.ecg_point_max = Fin(2)
    /\ ecg_state.ecg_point_min = Fin(-1)
    /\ ecg_state.ecg_point_min_new = PosInf

\* The ECG values submitted so far.
Submitted == [i \in 1..Len(pushed) |-> pushed[i].ecg]

\* C11: on a freshly started pipeline given the ramp, the records up to
\* the one that completes the peak report heart rate 0, and every record
\* from that one on reports one and the same positive heart rate.
RampSetsHeartRate ==
    \A i \in 1..Len(appended) :
        IF \E j \in 1..(i - 1) : Submitted[j] = RampHigh
        THEN /\ XGt(appended[i].heart_rate, Fin(0))
             /\ appended[i].heart_rate = appended[Len(appended)].heart_rate
        ELSE appended[i].heart_rate = Fin(0)

\* The calibrated value of a raw code: (code / 10) * scale_factor + offset.
Calibrated(raw_temp) ==
    XAdd(XMul(Rat(raw_temp, 10), temp_state.scale_factor), temp_state.offset)

\* The last call was given a code whose calibrated value is below
\* room_temperature - 10.
LastCallLow ==
    /\ calls > 0
    /\ XLt(Calibrated(pushed[Len(pushed)].temp),
           XSub(temp_state.room_temperature, Fin(10)))

\* C12: every call whose calibrated value is below room_temperature - 10
\* returns room_temperature.
FaultReturnsRoom ==
    LastCallLow => ret[1] = temp_state.room_temperature

\* C12, as the code has it: such a call returns room_temperature unless it
\* is the call that fills the window, which returns the trimmed mean and
\* leaves the buffer empty.
FaultReturnsRoomUnlessFull ==
    (LastCallLow /\ temp_state.temperatures # <<>>) =>
        ret[1] = temp_state.room_temperature

\* A low code has been answered with room_temperature, after other codes.
FaultSubstituted ==
    /\ LastCallLow
    /\ ret[1] = temp_state.room_temperature
    /\ Len(temp_state.temperatures) > 1
    /\ temp_state.temperatures[1] # temp_state.room_temperature

\* A sequence without one occurrence of a value it holds.
Without[seq \in Seq(XNum), v \in XNum] ==
    LET i == CHOOSE i \in 1..Len(seq) : seq[i] = v
    IN  SubSeq(seq, 1, i - 1) \o SubSeq(seq, i + 1, Len(seq))

Lowest(seq) ==
    CHOOSE v \in {seq[i] : i \in 1..Len(seq)} : \A i \in 1..Len(seq) : XLe(v, seq[i])
Highest(seq) ==
    CHOOSE v \in {seq[i] : i \in 1..Len(seq)} : \A i \in 1..Len(seq) : XLe(seq[i], v)

\* A sequence without its n lowest, and without its n highest, values.
DropLowest[n \in Nat, seq \in Seq(XNum)] ==
    IF n = 0 THEN seq ELSE DropLowest[n - 1, Without[seq, Lowest(seq)]]
DropHighest[n \in Nat, seq \in Seq(XNum)] ==
    IF n = 0 THEN seq ELSE DropHighest[n - 1, Without[seq, Highest(seq)]]

\* The mean of the 50 values left of 70 without the 10 lowest and the 10
\* highest.
MeanOfMiddle50(window) ==
    XDiv(SumSeq(DropHighest[10, DropLowest[10, window]]), Fin(50))

\* What enters the buffer for a raw code: room_temperature for a low one.
Entering(raw_temp) ==
    IF XLt(Calibrated(raw_temp), XSub(temp_state.room_temperature, Fin(10)))
    THEN temp_state.room_temperature
    ELSE Calibrated(raw_temp)

\* C13: the call that brings the buffer to 70 elements returns
\* min(mean of the middle 50 of the 70 buffered values, max_temp) and clears
\* the buffer; every other call returns the value it put into the buffer.
TrimmedMeanOnFull ==
    [][ \A entering \in {Entering(pushed'[Len(pushed')].temp)} :
        \A window \in {Append(temp_state.temperatures, entering)} :
            IF Len(window) = 70
            THEN /\ \A mean \in {MeanOfMiddle50(window)} :
                        ret'[1] = IF XLt(temp_state.max_temp, mean)
                                  THEN temp_state.max_temp
                                  ELSE mean
                 /\ temp_state'.temperatures = <<>>
            ELSE /\ ret'[1] = entering
                 /\ temp_state'.temperatures = window ]_vars

\* The 70th call has returned a mean that is none of the values given.
TrimmedMeanReturned ==
    /\ calls = 70
    /\ temp_state.temperatures = <<>>
    /\ XLt(Fin(30), ret[1])
    /\ XLt(ret[1], temp_state.max_temp)

\* C14: after every call of the temperature filter the buffer holds
\* (number of calls so far) mod 70 values, so between 0 and 69, and the
\* drop-oldest step of the next call, whatever its code, removes nothing.
BufferLengthCycles ==
    /\ Len(temp_state.temperatures) = calls % TempWindow
    /\ Len(temp_state.temperatures) \in 0..TempWindow
    /\ \A raw_temp \in TempCodes :
        TempPushed(temp_state, raw_temp) =
            Append(temp_state.temperatures, AdjustedTemp(temp_state, raw_temp))

\* The buffer was cleared a second time and has taken one value since.
SecondCycleStarted ==
    /\ calls = 2 * TempWindow + 1
    /\ Len(temp_state.temperatures) = 1

\* A value of [-1, 1].
InUnit(v) == XLe(Fin(-1), v) /\ XLe(v, Fin(1))

YValues(points) == {points[i].y : i \in 1..Len(points)}

\* C15: under the default configuration every call of process_ecg_lttb
\* returns a normalized value of [-1, 1], which is 0 when the range widened
\* by the sample has its maximum equal to its minimum, and after the call
\* every point of the raw and of the compressed buffer has its y in [-1, 1].
NormalizedInUnit ==
    [][ lttb_config = LttbConfigDefault =>
        \A sample \in {Fin(ret'[1])} :
        \A max \in {IF XLt(lttb_state.global_max, sample)
                     THEN sample ELSE lttb_state.global_max} :
        \A min \in {IF XLt(sample, lttb_state.global_min)
                     THEN sample ELSE lttb_state.global_min} :
            /\ InUnit(ret'[2])
            /\ max = min => ret'[2] = Fin(0)
            /\ \A y \in YValues(lttb_state'.raw_buffer) : InUnit(y)
            /\ \A y \in YValues(lttb_state'.compressed_buffer) : InUnit(y) ]_vars

\* After a compression and two range updates a sample falls strictly inside
\* the range.
NormalizedInside ==
    /\ lttb_config = LttbConfigDefault
    /\ lttb_state.sample_counter > 2 * RangeUpdateInterval
    /\ lttb_state.compressed_buffer # <<>>
    /\ XLt(Fin(-1), ret[2]) /\ XLt(ret[2], Fin(0))

\* The raw buffer of process_ecg_lttb once the point of this call is pushed.
RawPushed == Append(lttb_state.raw_buffer, [x |-> Fin(calls'), y |-> ret'[2]])

\* C16: the call of process_ecg_lttb whose push brings the raw buffer to
\* 1000 points compresses it and leaves its last 250 points, in their order;
\* every other call leaves the buffer as pushed and the compressed buffer as
\* it was; so the raw buffer has fewer than 1000 points after every call.
CompressesAtFull ==
    [][ /\ Len(lttb_state'.raw_buffer) < 1000
        /\ IF Len(RawPushed) = 1000
           THEN /\ Len(lttb_state'.raw_buffer) = 250
                /\ \A i \in 1..250 : lttb_state'.raw_buffer[i] = RawPushed[750 + i]
                /\ lttb_state'.compressed_buffer # lttb_state.compressed_buffer
           ELSE /\ lttb_state'.raw_buffer = RawPushed
                /\ lttb_state'.compressed_buffer = lttb_state.compressed_buffer ]_vars

\* The second compression has left the points of calls 1501 to 1750.
SecondCompressionDone ==
    /\ calls = 1750
    /\ Len(lttb_state.raw_buffer) = 250
    /\ lttb_state.raw_buffer[1].x = Fin(1501)
    /\ lttb_state.raw_buffer[250].x = Fin(1750)

\* C17: with the dynamic range disabled, buffer_size 1000 and compression
\* ratio 10, a fresh LTTB state is not compressed by its first 999 samples,
\* and the 1000th leaves a compressed buffer of 100 points, which it
\* returns, and a raw buffer of 250.
FirstCompressionAt1000 ==
    (/\ ~lttb_config.enable_dynamic_range
     /\ lttb_state.buffer_size = 1000
     /\ lttb_state.compression_ratio = 10)
    => /\ calls < 1000 => /\ lttb_state.compressed_buffer = <<>>
                          /\ Len(lttb_state.raw_buffer) = calls
                          /\ ret # <<>> => ret[3] = <<>>
       /\ calls = 1000 => /\ Len(lttb_state.compressed_buffer) = 100
                          /\ Len(lttb_state.raw_buffer) = 250
                          /\ ret[3] = lttb_state.compressed_buffer

\* The 1000th sample was processed with the dynamic range disabled.
ThousandProcessedStatic ==
    /\ ~lttb_config.enable_dynamic_range
    /\ calls = 1000
    /\ lttb_state.sample_counter = 1000
    /\ Len(lttb_state.compressed_buffer) = 100

\* The points given to the last call of lttb_downsample, its threshold and
\* what it returned.
Points == lttb_state.raw_buffer
Threshold == ret[1]
Downsampled == ret[2]

\* C18: lttb_downsample returns its input unchanged when the input, empty
\* or not, has at most threshold points.
ShortInputUnchanged ==
    (calls > 0 /\ Len(Points) <= Threshold) => Downsampled = Points

\* A buffer of exactly threshold points was given.
ShortInputGiven ==
    /\ calls > 0
    /\ Len(Points) = Threshold
    /\ Len(Points) = 3
    /\ Downsampled = Points

\* C19: for every input and every threshold of 2 or less lttb_downsample
\* returns the first and the last point of the input, two elements.
EndsForSmallThreshold ==
    (calls > 0 /\ Threshold <= 2)
    => /\ Points # <<>>
       /\ Downsampled = <<Points[1], Points[Len(Points)]>>

\* C19, for the inputs of more than threshold points: with a threshold of 2
\* or less lttb_downsample returns their first and their last point.
EndsForSmallThresholdLongInput ==
    (calls > 0 /\ Threshold <= 2 /\ Len(Points) > Threshold)
    => Downsampled = <<Points[1], Points[Len(Points)]>>

\* A long buffer was given with a threshold of 1.
EndsReturned ==
    /\ calls > 0
    /\ Threshold = 1
    /\ Len(Points) = MaxPoints
    /\ Len(Downsampled) = 2

\* C20: for an input of more than threshold points and a threshold above 2
\* lttb_downsample returns threshold points, the first of them the first
\* point of the input and the last of them its last point.
ExactlyThresholdPoints ==
    (calls > 0 /\ Len(Points) > Threshold /\ Threshold > 2)
    => /\ Len(Downsampled) = Threshold
       /\ Downsampled[1] = Points[1]
       /\ Downsampled[Len(Downsampled)] = Points[Len(Points)]

\* A buffer of 7 points was brought down to 4.
BucketsSampled ==
    /\ calls > 0
    /\ Threshold = 4
    /\ Len(Points) = 7
    /\ Len(Downsampled) = 4

\* The counts asked of get_processed_data: none, some, and more than the
\* Output History can hold.
AskedCounts == 0..(QueueCapacity + 1)

\* C21: whenever get_processed_data(n) can run it returns min(n, length of
\* the Output History) records, the i-th of them the i-th most recently
\* appended record, so none for n = 0.  (The call only reads the history:
\* GetProcessedData changes no variable.)
LatestNewestFirst ==
    /\ \A count \in AskedCounts :
          /\ Len(GetProcessedDataResult(count)) = Min(count, Len(processed_data_queue))
          /\ \A i \in 1..Len(GetProcessedDataResult(count)) :
                GetProcessedDataResult(count)[i] = appended[Len(appended) - i + 1]
    /\ GetProcessedDataResult(0) = <<>>

\* get_processed_data can run on a full Output History that has lost a
\* record, its two records different.
LatestOfEvictedHistory ==
    /\ caller.pc = "idle" /\ Free("processed")
    /\ Len(processed_data_queue) = QueueCapacity
    /\ Len(appended) > QueueCapacity
    /\ GetProcessedDataResult(2)[1] # GetProcessedDataResult(2)[2]

\* Raw SpO2 values: negative, 0 and percentages.
RawSpo2 == -5..100

\* The sample a record was made from: its ecg value is 100 times its place
\* in the history of pushed samples.
SampleOfRecord(record) == pushed[record.ecg_raw \div 100]

\* C22: process_blood_oxygen returns 0 for every raw value below 1 and the
\* raw value itself for every other one, and the blood_oxygen of every
\* record appended is that function of its sample's spo2.
Spo2Validated ==
    /\ \A raw \in RawSpo2 :
          ProcessBloodOxygen(raw) = IF raw >= 1 THEN raw ELSE 0
    /\ \A i \in 1..Len(appended) :
          /\ SampleOfRecord(appended[i]).spo2 < 1 => appended[i].blood_oxygen = 0
          /\ SampleOfRecord(appended[i]).spo2 >= 1 =>
                appended[i].blood_oxygen = SampleOfRecord(appended[i]).spo2

\* A record of a sample with spo2 0 and one of a sample with spo2 98 were
\* appended.
BothSpo2Recorded ==
    /\ \E i \in 1..Len(appended) :
          SampleOfRecord(appended[i]).spo2 = 0 /\ appended[i].blood_oxygen = 0
    /\ \E i \in 1..Len(appended) :
          SampleOfRecord(appended[i]).spo2 = 98 /\ appended[i].blood_oxygen = 98

\* The lock a worker loop asks for at its next step, if any.
WorkerWants(w) ==
    CASE worker[w].pc = "pop" -> {"raw"}
      [] worker[w].pc = "temp" -> {"temp"}
      [] worker[w].pc = "ecg" -> {"ecg"}
      [] worker[w].pc \in {"lttb", "log_lttb"} -> {"lttb"}
      [] worker[w].pc \in {"count", "log_count"} -> {"count"}
      [] worker[w].pc = "push" -> {"processed"}
      [] OTHER -> {}

\* The lock a reader asks for at its next step: the Sample Queue's for its
\* next push, none while it sleeps.
ReaderWants(r) == IF reader[r].pc = "run" THEN {"raw"} ELSE {}

\* The lock a query call in progress asks for at its next step.
CallerWants ==
    CASE caller.pc \in {"ges_ecg", "gpm_lttb"} -> {"lttb"}
      [] caller.pc = "gpm_processed" -> {"processed"}
      [] OTHER -> {}

\* The locks asked for by the thread that holds lock l.
HolderWants(l) ==
    UNION ({ReaderWants(r) : r \in {q \in ReaderIds : l \in reader[q].held}}
           \cup {IF l \in caller.held THEN CallerWants ELSE {}})

\* C23: no deadlock: in no reachable state is there a set of held locks
\* each of whose holders waits for a lock of the set, that is a set of
\* threads each waiting for a lock another of the set holds.
NoLockCycle ==
    \A L \in (SUBSET Held) \ {{}} :
        \E l \in L : HolderWants(l) \cap L = {}

\* Both worker loops and get_ecg_statistics contend: the call holds the ECG
\* and the LTTB lock, one loop waits for the ECG lock and the other for the
\* LTTB lock, while the TestReader sleeps on the Sample Queue's lock.
LocksContended ==
    /\ caller.held = {"ecg", "lttb"}
    /\ reader["test"].held = {"raw"}
    /\ \E w, v \in WorkerIds : WorkerWants(w) = {"ecg"} /\ WorkerWants(v) = {"lttb"}

\* C24: no thread sleeps or waits with a lock held: a sleeping reader holds
\* no lock, the Sample Queue's least of all, so that a worker loop at its
\* pop finds the Sample Queue's lock free between two pushes.
NoSleepWithLock ==
    /\ \A r \in ReaderIds : reader[r].pc = "sleep" => reader[r].held = {}
    /\ \A w \in WorkerIds : worker[w].pc = "pop" => Free("raw")

\* p0 < p1 > p2 and (p1 - current_min) > 0.6 * (current_max - current_min).
Qualifies(points, current_max, current_min) ==
    /\ points[1] < points[2]
    /\ points[2] > points[3]
    /\ XGt(XSub(Fin(points[2]), current_min),
           XMul(Rat(6, 10), XSub(current_max, current_min)))

\* min(100, 60 / ((1/250) * n)).
RateOfInterval(n) ==
    LET rate == XDiv(Fin(60), XMul(Rat(1, 250), Fin(n)))
    IN  IF XLt(Fin(100), rate) THEN Fin(100) ELSE rate

\* C25: on every call of process_ecg_data that evaluates the window (the
\* window held three samples already), with n the interval counter before
\* the call and the current range as it stands when the test is made: if
\* the window qualifies and n is not 0 the stored heart rate becomes
\* min(100, 60 / ((1/250) * n)), the stored RR interval 60 / heart rate and
\* the counter 0; if the window does not qualify the counter becomes n + 1.
\* So a peak is detected exactly when the window qualifies.
RWaveRule ==
    [][ calls' = calls + 1 /\ Len(ecg_state.ecg_points) = 3 =>
        \A n \in {ecg_state.peak_interval_num} :
        \A q \in {Qualifies(ecg_state'.ecg_points, ecg_state'.ecg_point_max,
                             ecg_state'.ecg_point_min)} :
            /\ Len(ecg_state'.ecg_points) = 3
            /\ q /\ n # 0 =>
                  /\ ecg_state'.last_heart_rate = RateOfInterval(n)
                  /\ ecg_state'.last_rr_interval =
                        XDiv(Fin(60), ecg_state'.last_heart_rate)
                  /\ ecg_state'.peak_interval_num = 0
            /\ ~q => ecg_state'.peak_interval_num = n + 1
      ]_vars

\* A qualifying peak has just set a rate below the clamp: the counter is
\* back at 0 and the stored rate lies strictly between 0 and 100.
RWaveTimed ==
    /\ calls > 3
    /\ ecg_state.peak_interval_num = 0
    /\ XGt(ecg_state.last_heart_rate, Fin(0))
    /\ XLt(ecg_state.last_heart_rate, Fin(100))

\* No qualifying peak has been seen yet: the interval counter, which every
\* evaluated call without one has incremented, has never been reset.
NoPeakYet == calls >= 3 /\ ecg_state.peak_interval_num = calls - 3

\* C26: the first qualifying peak leaves the stored heart rate and RR
\* interval as they were: on a call that evaluates a qualifying window with
\* no qualifying peak seen before, neither stored value changes.
FirstPeakOnlyCounts ==
    [][ /\ calls' = calls + 1
        /\ Len(ecg_state.ecg_points) = 3
        /\ NoPeakYet
        /\ Qualifies(ecg_state'.ecg_points, ecg_state'.ecg_point_max,
                     ecg_state'.ecg_point_min)
        => /\ ecg_state'.last_heart_rate = ecg_state.last_heart_rate
           /\ ecg_state'.last_rr_interval = ecg_state.last_rr_interval
      ]_vars

\* C27: the value process_body_temperature returns never exceeds max_temp,
\* on pass-through calls as on the calls that return the trimmed mean.
TempNeverAboveMax ==
    calls > 0 => XLe(ret[1], temp_state.max_temp)

\* C28: a call of process_ecg_lttb whose push leaves the raw buffer short
\* of buffer_size leaves the stored compressed buffer as it was; the
\* snapshot every call returns is the compressed buffer stored after it;
\* and as long as no call has compressed (the raw buffer still holds every
\* sample) the snapshot returned is empty.
SnapshotIsStoredBuffer ==
    [][ calls' = calls + 1 =>
        /\ Len(lttb_state.raw_buffer) + 1 < lttb_state.buffer_size =>
              lttb_state'.compressed_buffer = lttb_state.compressed_buffer
        /\ ret'[3] = lttb_state'.compressed_buffer
        /\ Len(lttb_state'.raw_buffer) = lttb_state'.sample_counter => ret'[3] = <<>>
      ]_vars

\* The call after the first compression has returned the 100 points that
\* compression stored.
SnapshotKept ==
    /\ calls = BufferSize + 1
    /\ Len(lttb_state.raw_buffer) < lttb_state.sample_counter
    /\ Len(ret[3]) = BufferSize \div CompressionRatio
    /\ ret[3] = lttb_state.compressed_buffer

\* floor(i * b) + 1 with b = (len - 2) / (threshold - 2): the first index
\* (from 0) of bucket i of the last call.
BucketStart(i) == (i * (Len(Points) - 2)) \div (Threshold - 2) + 1

\* The indices of bucket i.
BucketOf(i) == BucketStart(i)..(BucketStart(i + 1) - 1)

RECURSIVE SumOver(_, _, _)
SumOver(f, from, to) ==
    IF from > to THEN Fin(0) ELSE XAdd(f[from], SumOver(f, from + 1, to))

\* The centroid of the points of bucket i.
Centroid(i) ==
    [ x |-> XDiv(SumOver([j \in BucketOf(i) |-> Points[j + 1].x],
                         BucketStart(i), BucketStart(i + 1) - 1),
                 Fin(Cardinality(BucketOf(i)))),
      y |-> XDiv(SumOver([j \in BucketOf(i) |-> Points[j + 1].y],
                         BucketStart(i), BucketStart(i + 1) - 1),
                 Fin(Cardinality(BucketOf(i)))) ]

\* The point an interior point is measured against: the centroid of the
\* next bucket, the final point for the last bucket.
NextCentroid(i) ==
    IF i = Threshold - 3 THEN Points[Len(Points)] ELSE Centroid(i + 1)

\* |ax * (cy - my) + cx * (my - ay) + mx * (ay - cy)| / 2.
AreaOf(a, c, m) ==
    XDiv(XAbs(XAdd(XAdd(XMul(a.x, XSub(c.y, m.y)), XMul(c.x, XSub(m.y, a.y))),
                   XMul(m.x, XSub(a.y, c.y)))),
         Fin(2))

BackoffByEmptyPolls ==
    [][ \A w \in WorkerIds :
        \A c \in {worker[w].consecutive_empty_count} :
          /\ (worker[w].pc = "pop" /\ worker'[w].pc # "pop" /\ raw_data_queue = <<>>) =>
                /\ worker'[w].pc = "sleep"
                /\ worker'[w].consecutive_empty_count = Min(c + 1, MaxIdlePolls)
                /\ worker'[w].consecutive_empty_count <= 9 => worker'[w].sleep_time = 50
                /\ worker'[w].consecutive_empty_count >= 10 => worker'[w].sleep_time = 200
          /\ (worker[w].pc = "pop" /\ worker'[w].pc # "pop" /\ raw_data_queue # <<>>) =>
                /\ worker'[w].pc = "temp"
                /\ worker'[w].consecutive_empty_count = 0
                /\ worker'[w].raw_data = <<Head(raw_data_queue)>>
          /\ (worker[w].pc # "pop" /\ worker'[w].pc # "exited") =>
                worker'[w].consecutive_empty_count = c
          /\ (worker'[w].pc = "sleep" /\ worker[w].pc # "sleep") =>
                worker[w].pc = "pop" /\ raw_data_queue = <<>>
      ]_vars

\* The loop sleeps the long delay after its 10th empty poll in a row, with
\* a sample processed before.
TenthEmptyPoll ==
    \E w \in WorkerIds :
        /\ worker[w].pc = "sleep"
        /\ worker[w].consecutive_empty_count = BackoffAfter
        /\ worker[w].sleep_time = LongSleepMs
        /\ appended # <<>>

\* Where sample k, the k-th pushed, is: in the Sample Queue, in the hands
\* of a worker loop, or in a record appended to the Output History.
Queued(k) == \E i \in 1..Len(raw_data_queue) : raw_data_queue[i] = SampleOf(k)
InHand(k) ==
    \E w \in WorkerIds : worker[w].raw_data = <<SampleOf(k)>>
Recorded(k) == \E i \in 1..Len(appended) : appended[i].ecg_raw = SampleOf(k).ecg

\* Sample k was pushed and is nowhere any more.
Gone(k) == k <= Len(pushed) /\ ~Queued(k) /\ ~InHand(k) /\ ~Recorded(k)

\* C31: a sample leaves the Sample Queue only into the hands of a worker
\* loop or, as the oldest of a full queue, when another is pushed; a sample
\* leaves a loop's hands only into a record of the Output History; and
\* every sample in the queue or in a loop's hands is in the end recorded or
\* evicted, unless the running flag is cleared.
PushedIsRecordedOrEvicted ==
    /\ [][ \A k \in 1..MaxSamples :
            /\ (Queued(k) /\ ~Queued(k)') =>
                  \/ InHand(k)'
                  \/ /\ Len(pushed') = Len(pushed) + 1
                     /\ Len(raw_data_queue) = QueueCapacity
                     /\ Head(raw_data_queue) = SampleOf(k)
            /\ (InHand(k) /\ ~InHand(k)') => Recorded(k)'
            /\ (~Gone(k) /\ Gone(k)') => Queued(k)
       ]_vars
    /\ \A k \in 1..MaxSamples :
          (Queued(k) \/ InHand(k)) ~> (Recorded(k) \/ Gone(k) \/ ~is_running)

\* With a loop running, the first sample was evicted by the push of the
\* third and the third was recorded.
EvictedAndRecorded ==
    /\ is_running
    /\ Gone(1)
    /\ Recorded(3)

\* The processors whose loop is alive with its running flag set.
FlaggedLoops ==
    {p \in ProcessorIds : processors[p].is_running /\ processors[p].pc # "exited"}

\* C32: at most one loop with its running flag set pops from the Sample
\* Queue, and when the handle is empty, as stop_data_processing and
\* disconnect_serial leave it, no processor has its running flag set.
OneFlaggedLoop ==
    /\ Cardinality(FlaggedLoops) <= 1
    /\ processor_state = <<>> => \A p \in ProcessorIds : ~processors[p].is_running

\* Loop w holds a sample it popped after stop() was last called: one it did
\* not hold at that call.
PoppedAfterStop(w) ==
    /\ worker[w].raw_data # <<>>
    /\ worker[w].at_stop # <<worker[w].raw_data[1].ecg>>

\* C33: while the flag is cleared, that is after stop() and before any
\* start(), at most one sample popped since the stop is being processed:
\* the processor's loops do not pop two samples after a stop.
OneFurtherPop ==
    ~is_running => Cardinality({w \in WorkerIds : PoppedAfterStop(w)}) <= 1

\* C34: on a fresh extractor each of the first 299 calls of
\* process_ecg_data returns heart rate 0 and RR interval 0, and leaves the
\* current range at -infinity and +infinity.
ZeroUntilFirstEpoch ==
    (calls >= 1 /\ calls <= 299) =>
        /\ ret = <<Fin(0), Fin(0)>>
        /\ ecg_state.ecg_point_max = NegInf
        /\ ecg_state.ecg_point_min = PosInf

\* The 299th call completed a window with a local maximum, and returned 0.
PeakShapeIgnored ==
    /\ calls = 299
    /\ ecg_state.ecg_points = <<0, 2, 0>>
    /\ ret = <<Fin(0), Fin(0)>>

\* C35: a recalculation of the dynamic range never widens it: after
\* recalculate_global_range the maximum is at most, and the minimum at
\* least, what it was after the sample widened the range.
RecalculationNarrows ==
    [][calls' = lttb_config.range_update_interval =>
        \A widened \in {LttbWiden(lttb_state, ret'[1])} :
            /\ F64Le(lttb_state'.global_max, F64Of(widened.global_max))
            /\ F64Le(F64Of(widened.global_min), lttb_state'.global_min)]_vars

\* The index (from 1) in the input of the k-th point returned by the last
\* call: the points of a raw buffer are stamped with their indices.
SelectedIndex(k) == Downsampled[k].x.n

\* C36: for an input of more than threshold points and a threshold above
\* 2, every bucket is non-empty and the buckets are disjoint, the i-th
\* interior point returned is a point of bucket i, and the indices of the
\* points returned are strictly increasing from the first index of the
\* input to its last: no input point is returned twice, and the output is
\* a subsequence of the input in its order.
SelectedStrictlyIncreasing ==
    (calls > 0 /\ Len(Points) > Threshold /\ Threshold > 2) =>
        /\ \A i \in 0..(Threshold - 3) :
              /\ BucketOf(i) # {}
              /\ BucketOf(i) \subseteq 1..(Len(Points) - 2)
              /\ (SelectedIndex(i + 2) - 1) \in BucketOf(i)
              /\ \A j \in 0..(Threshold - 3) :
                    i # j => BucketOf(i) \cap BucketOf(j) = {}
        /\ \A k \in 1..Len(Downsampled) :
              /\ SelectedIndex(k) \in 1..Len(Points)
              /\ Downsampled[k] = Points[SelectedIndex(k)]
        /\ SelectedIndex(1) = 1
        /\ SelectedIndex(Len(Downsampled)) = Len(Points)
        /\ \A k \in 1..(Len(Downsampled) - 1) :
              SelectedIndex(k) < SelectedIndex(k + 1)

\* Seven points were brought down to five, and the points taken from the
\* second and the third bucket are neighbours in the input.
NeighboursSelected ==
    /\ calls > 0
    /\ Threshold = 5
    /\ Len(Points) = MaxPoints
    /\ Len(Downsampled) = 5
    /\ SelectedIndex(3) = 4
    /\ SelectedIndex(4) = 5

\* C37: in every state of the LTTB processing under the default sizes, a
\* compressed buffer that is not empty holds buffer_size / compression_ratio
\* = 100 points while the raw buffer holds between 250 and 999; so neither
\* get_ecg_statistics nor get_performance_metrics divides by zero, the
\* compression efficiency is raw / 100, and compression_ratio_achieved lies
\* between 60 and 90 percent.
BuffersBoundedOnceCompressed ==
    lttb_state.compressed_buffer # <<>> =>
        /\ Len(lttb_state.compressed_buffer) = BufferSize \div CompressionRatio
        /\ Len(lttb_state.compressed_buffer) = 100
        /\ Len(lttb_state.raw_buffer) >= BufferSize \div KeepDivisor
        /\ Len(lttb_state.raw_buffer) \in 250..999
        /\ CompressionEfficiency(lttb_state)
              = Rat(Len(lttb_state.raw_buffer), 100)
        /\ CompressionEfficiency(lttb_state).d # 0
        /\ CompressionRatioAchieved(lttb_state).d # 0
        /\ XLe(Fin(60), CompressionRatioAchieved(lttb_state))
        /\ XLe(CompressionRatioAchieved(lttb_state), Fin(90))

\* Under the default configuration the first compression has just left 250
\* raw points, and the ratio achieved is 60 percent.
LowestRatioAchieved ==
    /\ lttb_config.enable_dynamic_range
    /\ Len(lttb_state.compressed_buffer) = 100
    /\ Len(lttb_state.raw_buffer) = 250
    /\ CompressionRatioAchieved(lttb_state) = Fin(60)
    /\ CompressionEfficiency(lttb_state) = Rat(5, 2)

====
